---------------------------- MODULE Spec2Model ----------------------------
(***************************************************************************)
(* A model of the ServiceNow client library.                              *)
(*                                                                         *)
(*   Part 1  ServiceNowClient.do : request gateway, retries, token buckets *)
(*   Part 2  CSchema.get         : schema cache with in-flight coalescing  *)
(*   Part 3  CDelta.merge        : planning phase of the row delta merge   *)
(*                                                                         *)
(* Each part has its own specification over the shared variables; a part's *)
(* actions leave the variables of the other parts unchanged.               *)
(***************************************************************************)
EXTENDS Integers, Sequences, FiniteSets, TLC

VARIABLES
    readOnly,       \* ServiceNowClient.readOnly (config.readOnly === true)
    calls,          \* one record per do() call: position and locals
    readBucket,     \* readBucket.numTokens  (tokens currently taken)
    writeBucket,    \* writeBucket.numTokens (tokens currently taken)
    cache,          \* CSchema.cache: table name -> nothing, a Promise or a schema
    resolved,       \* the in-flight Promises whose done() has been called
    getters,        \* one record per CSchema.get call: position and locals
    now,            \* +new Date(), in minutes
    fetches,        \* per table: schema requests issued and schemas published
    run,            \* the argument of CDelta.merge and the rows of the remote table
    mpc,            \* position of the merge call
    pending,        \* the plan of the merge call
    remote,         \* the rows of the remote table and its sys_id counter
    policy,         \* the table's data policy (active) and the toggle calls of the run
    exec,           \* the write requests of the plan: status of each
    sent,           \* the row write requests issued by the run
    result,         \* what the merge calls returned
    desired,        \* the argument of CTable.sync: table spec and options
    rtable,         \* the remote table: whether it exists and its columns
    tpc,            \* position of the table sync call
    tplan,          \* the pending actions of the table sync call
    twrites,        \* the HTTP writes the table sync call has issued
    commits,        \* the commit() calls of commitAll: started, running
    conversion,     \* the conversion under way: schema, input, position, output
    hierarchy,      \* the remote tables from a table up to its last ancestor
    descriptor,     \* what CTable.get returned for the first table
    paging,         \* a getRecords call: its count, page plan and the page requests issued
    relate,         \* a CRelate.rows call: its inputs, the types resolved so far and the writes issued
    dataPolicies,   \* the sys_data_policy2 records of one table and user, and the policy operations on it
    keying,         \* a merge call up to the key of its first row: the primaryKey given, the row, its wire form and key
    resync,         \* a sync(table, {commit}) call and the timer of its sleep
    recordCache,    \* the record cache of getRecords: the call options about it, its entry, and its reads and writes
    expansion,      \* a column given to expandColumn, the calls made on it and what they left
    payloads        \* a merge call with typed values: its inputs, its plan and the request bodies handed to the client

doVars == <<readOnly, calls, readBucket, writeBucket>>

schemaVars == <<cache, resolved, getters, now, fetches>>

deltaVars == <<run, mpc, pending, remote, policy, exec, sent, result>>

tableVars == <<desired, rtable, tpc, tplan, twrites, commits>>

convVars == <<conversion>>

getVars == <<hierarchy, descriptor>>

recordsVars == <<paging, recordCache>>

relateVars == <<relate>>

policyVars == <<dataPolicies>>

keyVars == <<keying>>

sleepVars == <<resync>>

expandVars == <<expansion>>

payloadVars == <<payloads>>

notDoVars == <<schemaVars, deltaVars, tableVars, convVars, getVars, recordsVars, relateVars, policyVars, keyVars, sleepVars, expandVars, payloadVars>>

notSchemaVars == <<doVars, deltaVars, tableVars, convVars, getVars, recordsVars, relateVars, policyVars, keyVars, sleepVars, expandVars, payloadVars>>

notDeltaVars == <<doVars, schemaVars, tableVars, convVars, getVars, recordsVars, relateVars, policyVars, keyVars, sleepVars, expandVars, payloadVars>>

notTableVars == <<doVars, schemaVars, deltaVars, convVars, getVars, recordsVars, relateVars, policyVars, keyVars, sleepVars, expandVars, payloadVars>>

notConvVars == <<doVars, schemaVars, deltaVars, tableVars, getVars, recordsVars, relateVars, policyVars, keyVars, sleepVars, expandVars, payloadVars>>

notGetVars == <<doVars, schemaVars, deltaVars, tableVars, convVars, recordsVars, relateVars, policyVars, keyVars, sleepVars, expandVars, payloadVars>>

notRecordsVars == <<doVars, schemaVars, deltaVars, tableVars, convVars, getVars, relateVars, policyVars, keyVars, sleepVars, expandVars, payloadVars>>

notRelateVars == <<doVars, schemaVars, deltaVars, tableVars, convVars, getVars, recordsVars, policyVars, keyVars, sleepVars, expandVars, payloadVars>>

notPolicyVars == <<doVars, schemaVars, deltaVars, tableVars, convVars, getVars, recordsVars, relateVars, keyVars, sleepVars, expandVars, payloadVars>>

notKeyVars == <<doVars, schemaVars, deltaVars, tableVars, convVars, getVars, recordsVars, relateVars, policyVars, sleepVars, expandVars, payloadVars>>

notSleepVars == <<doVars, schemaVars, deltaVars, tableVars, convVars, getVars, recordsVars, relateVars, policyVars, keyVars, expandVars, payloadVars>>

notExpandVars == <<doVars, schemaVars, deltaVars, tableVars, convVars, getVars, recordsVars, relateVars, policyVars, keyVars, sleepVars, payloadVars>>

notPayloadVars == <<doVars, schemaVars, deltaVars, tableVars, convVars, getVars, recordsVars, relateVars, policyVars, keyVars, sleepVars, expandVars>>

vars == <<readOnly, calls, readBucket, writeBucket,
          cache, resolved, getters, now, fetches,
          run, mpc, pending, remote, policy, exec, sent, result,
          desired, rtable, tpc, tplan, twrites, commits, conversion, hierarchy, descriptor, paging, relate, dataPolicies, keying, resync, recordCache, expansion, payloads>>

(***************************************************************************)
(* Part 1.  ServiceNowClient.do                                            *)
(***************************************************************************)

\* number of do() calls under Spec (every transport outcome is tried on each)
NumCalls == 1
\* number of concurrent do() calls under SpecBuckets
NumConcurrent == 2
\* config.readConcurrency / config.writeConcurrency of the modelled client
ReadConcurrency == 1
WriteConcurrency == 2

CallIds == DOMAIN calls

\* request.method as the caller may pass it ("" stands for an absent method)
ReqMethods == {"", "head", "POST", "delete"}
\* request.url: absent, or a valid versioned table url
ReqUrls == {"", "/v2/table/u_foo"}

\* String.prototype.toUpperCase on the methods of the model
ToUpperCase(m) ==
    CASE m = "head" -> "HEAD"
      [] m = "delete" -> "DELETE"
      [] m = "get" -> "GET"
      [] m = "post" -> "POST"
      [] OTHER -> m

\* let { method } = request; if (!method) method = "GET" else toUpperCase()
NormMethod(m) == IF m = "" THEN "GET" ELSE ToUpperCase(m)

IsRead(method) == method = "GET" \/ method = "HEAD"

IsWritePostOnly(method) == method = "POST"
IsWrite(method) == ~IsRead(method)

\* error codes the transport may throw; the first three are the codes that
\* do() names, the last stands for every other error
ErrCodes == {"ECONNRESET", "EAI_AGAIN", "ETIMEDOUT", "ECONNREFUSED"}

\* responses of the transport: status and whether a usable body came with it
Responses ==
    { [kind |-> "resp", status |-> 200, data |-> TRUE,  code |-> ""],
      [kind |-> "resp", status |-> 200, data |-> FALSE, code |-> ""],
      [kind |-> "resp", status |-> 201, data |-> FALSE, code |-> ""],
      [kind |-> "resp", status |-> 429, data |-> FALSE, code |-> ""],
      [kind |-> "resp", status |-> 500, data |-> FALSE, code |-> ""] }

Errors == { [kind |-> "err", status |-> 0, data |-> FALSE, code |-> c] : c \in ErrCodes }

\* every way one HTTP attempt can end
Outcomes == Responses \cup Errors

\* "no response yet" (let resp; is undefined)
NoResp == [kind |-> "none", status |-> 0, data |-> FALSE, code |-> ""]

\* the attempt number at which the loop gives up
MaxAttemptsOff == 3 + 1
MaxAttemptsEarly == 3 - 1
MaxAttempts == 3

\* catch (err): err.code is one of the three retried codes
IsRetryCode(code) == code \in {"ECONNRESET", "EAI_AGAIN", "ETIMEDOUT"}

\* the retry decision after one attempt: the catch block sets retry on the
\* three codes, then "if (resp && resp.status === 429) retry = true" reads
\* resp, which still holds the response of an earlier attempt when this
\* attempt threw
RetryAfter(resp, out) ==
    \/ (out.kind = "err" /\ IsRetryCode(out.code))
    \/ (resp.kind = "resp" /\ resp.status = 429)

\* the code after the loop: what the call returns or throws
Outcome(resp, respErr) ==
    IF respErr # "" THEN "throw:" \o respErr
    ELSE IF resp.status = 204 \/ resp.status = 201 THEN "true"
    ELSE IF resp.status # 200 THEN
        (IF resp.status = 403 THEN "throw:Unauthorised" ELSE "throw:Unexpected error")
    ELSE IF ~resp.data THEN "throw:Expected response data"
    ELSE "result"

\* bucket.run: the token is given back when the wrapped function settles
ReleaseLeakOnThrow(n, threw) == IF threw THEN n ELSE n - 1
Release(n, threw) == n - 1

\* const bucket = isRead ? this.readBucket : this.writeBucket
BucketOfAlwaysWrite(method) == "write"
BucketOf(method) == IF IsRead(method) THEN "read" ELSE "write"

\* a call before do() is entered.  requests counts the HTTP requests the
\* call has issued and n429 the attempts answered 429 (both for the
\* properties; the code keeps neither)
IdleCall ==
    [pc |-> "idle", method |-> "", attempt |-> 0, resp |-> NoResp,
     respErr |-> "", requests |-> 0, n429 |-> 0, result |-> ""]

\* the call returns or throws res
Finished(call, res) ==
    [call EXCEPT !.pc = "done", !.attempt = 0, !.result = res]

\* the client after construction; no CSchema.get call is modelled here
InitDo ==
    /\ readOnly \in BOOLEAN
    /\ calls = [c \in 1 .. NumCalls |-> IdleCall]
    /\ readBucket = 0
    /\ writeBucket = 0
    /\ cache = <<>>
    /\ resolved = {}
    /\ getters = <<>>
    /\ now = 0
    /\ fetches = <<>>
    /\ run = <<>>
    /\ mpc = "none"
    /\ pending = <<>>
    /\ remote = <<>>
    /\ policy = <<>>
    /\ exec = <<>>
    /\ sent = {}
    /\ result = <<>>
    /\ desired = <<>>
    /\ rtable = <<>>
    /\ tpc = "none"
    /\ tplan = <<>>
    /\ twrites = <<>>
    /\ commits = [started |-> <<>>, running |-> 0]
    /\ conversion = <<>>
    /\ hierarchy = <<>>
    /\ descriptor = <<>>
    /\ paging = <<>>
    /\ relate = <<>>
    /\ dataPolicies = <<>>
    /\ keying = <<>>
    /\ resync = <<>>
    /\ recordCache = <<>>
    /\ expansion = <<>>
    /\ payloads = <<>>

\* do(request) up to the first await: method normalisation and the
\* validation throws
Do(c, m, url) ==
    /\ calls[c].pc = "idle"
    /\ LET method == NormMethod(m)
           call == [calls[c] EXCEPT !.method = method]
       IN calls' = [calls EXCEPT ![c] =
            IF url = "" THEN Finished(call, "throw:Missing URL")
            ELSE IF IsWrite(method) /\ readOnly
                 THEN Finished(call, "throw:read-only mode is enabled")
            ELSE [call EXCEPT !.pc = "take"]]
    /\ UNCHANGED <<readOnly, readBucket, writeBucket>>

\* bucket.run(...) gets a token and the wrapped function issues the request
Take(c) ==
    /\ calls[c].pc = "take"
    /\ IF BucketOf(calls[c].method) = "read"
       THEN /\ readBucket < ReadConcurrency
            /\ readBucket' = readBucket + 1
            /\ UNCHANGED writeBucket
       ELSE /\ writeBucket < WriteConcurrency
            /\ writeBucket' = writeBucket + 1
            /\ UNCHANGED readBucket
    /\ calls' = [calls EXCEPT ![c].pc = "inflight",
                              ![c].respErr = "",
                              ![c].requests = @ + 1]
    /\ UNCHANGED readOnly

\* the request settles with outcome out: the rest of the loop body, and the
\* code after the loop when the loop breaks
Settle(c, out) ==
    /\ calls[c].pc = "inflight"
    /\ LET call    == calls[c]
           resp    == IF out.kind = "resp" THEN out ELSE call.resp
           respErr == IF out.kind = "err" THEN out.code ELSE ""
           retry   == RetryAfter(resp, out)
           attempt == call.attempt + 1
           next    == [call EXCEPT !.resp = resp, !.respErr = respErr,
                                   !.n429 = IF out.status = 429 THEN @ + 1 ELSE @]
       IN /\ calls' = [calls EXCEPT ![c] =
                IF ~retry THEN Finished(next, Outcome(resp, respErr))
                ELSE IF attempt = MaxAttempts
                     THEN Finished(next, "throw:Too many retries")
                ELSE [next EXCEPT !.pc = "sleep", !.attempt = attempt]]
          /\ IF BucketOf(call.method) = "read"
             THEN /\ readBucket' = Release(readBucket, out.kind = "err")
                  /\ UNCHANGED writeBucket
             ELSE /\ writeBucket' = Release(writeBucket, out.kind = "err")
                  /\ UNCHANGED readBucket
    /\ UNCHANGED readOnly

\* await sync.sleep(backoff.duration()) is over
Wake(c) ==
    /\ calls[c].pc = "sleep"
    /\ calls' = [calls EXCEPT ![c].pc = "take"]
    /\ UNCHANGED <<readOnly, readBucket, writeBucket>>

NextDo ==
    \/ \E c \in CallIds, m \in ReqMethods, url \in ReqUrls :
          Do(c, m, url) /\ UNCHANGED notDoVars
    \/ \E c \in CallIds : Take(c) /\ UNCHANGED notDoVars
    \/ \E c \in CallIds, out \in Outcomes : Settle(c, out) /\ UNCHANGED notDoVars
    \/ \E c \in CallIds : Wake(c) /\ UNCHANGED notDoVars

Spec == InitDo /\ [][NextDo]_vars

\* concurrent calls: the same operations, with more callers and a transport
\* that answers 200, 429, a retried error or another error
InitBuckets ==
    /\ readOnly = FALSE
    /\ calls = [c \in 1 .. NumConcurrent |-> IdleCall]
    /\ readBucket = 0
    /\ writeBucket = 0
    /\ cache = <<>>
    /\ resolved = {}
    /\ getters = <<>>
    /\ now = 0
    /\ fetches = <<>>
    /\ run = <<>>
    /\ mpc = "none"
    /\ pending = <<>>
    /\ remote = <<>>
    /\ policy = <<>>
    /\ exec = <<>>
    /\ sent = {}
    /\ result = <<>>
    /\ desired = <<>>
    /\ rtable = <<>>
    /\ tpc = "none"
    /\ tplan = <<>>
    /\ twrites = <<>>
    /\ commits = [started |-> <<>>, running |-> 0]
    /\ conversion = <<>>
    /\ hierarchy = <<>>
    /\ descriptor = <<>>
    /\ paging = <<>>
    /\ relate = <<>>
    /\ dataPolicies = <<>>
    /\ keying = <<>>
    /\ resync = <<>>
    /\ recordCache = <<>>
    /\ expansion = <<>>
    /\ payloads = <<>>

BucketOutcomes ==
    { o \in Outcomes : \/ (o.kind = "resp" /\ o.status = 429)
                       \/ (o.kind = "resp" /\ o.status = 200 /\ o.data)
                       \/ (o.kind = "err" /\ o.code \in {"ECONNRESET", "ECONNREFUSED"}) }

NextBuckets ==
    \/ \E c \in CallIds, m \in ReqMethods :
          Do(c, m, "/v2/table/u_foo") /\ UNCHANGED notDoVars
    \/ \E c \in CallIds : Take(c) /\ UNCHANGED notDoVars
    \/ \E c \in CallIds, out \in BucketOutcomes :
          Settle(c, out) /\ UNCHANGED notDoVars
    \/ \E c \in CallIds : Wake(c) /\ UNCHANGED notDoVars

SpecBuckets == InitBuckets /\ [][NextBuckets]_vars

(***************************************************************************)
(* Part 3.  CDelta.merge: indexing and planning                            *)
(***************************************************************************)

\* longest list of incoming rows and of existing rows
MaxIncoming == 2
MaxExisting == 2

\* JavaScript values: a type tag and, for strings and booleans, the text
Str(x) == [t |-> "string", v |-> x]

Bool(b) == [t |-> "boolean", v |-> IF b THEN "true" ELSE "false"]

\* a value that is no string, number, boolean or Date
Obj == [t |-> "object", v |-> ""]

\* an object without properties
EmptyRow == [k \in {} |-> ""]

\* the schema of the target table (what schema.get returns): column -> type,
\* with or without the deletedFlag column u_in_datamart
TableSchema(hasFlag) ==
    [k \in {"name", "sys_class_name", "sys_id", "u_name"} \cup (IF hasFlag THEN {"u_in_datamart"} ELSE {})
       |-> CASE k = "sys_id" -> "GUID"
             [] k = "u_in_datamart" -> "boolean"
             [] OTHER -> "string"]

\* the column names of the model in sorted order, as Array.prototype.sort
\* and the sorted schema leave them
SortedKeys == <<"name", "sys_class_name", "sys_id", "u_in_datamart", "u_name">>

\* k.startsWith("u_")
StartsWithU(k) == k \in {"u_in_datamart", "u_name"}

\* convertSN on one value of a column of type t: [ok, v]
ConvertValue(t, val) ==
    IF t = "boolean" THEN
        LET b == IF val.t = "string" THEN Bool(val.v = "true")
                 ELSE IF val.t = "number" THEN Bool(val.v = "1")
                 ELSE IF val.t = "null" THEN Bool(FALSE)
                 ELSE val
        IN IF b.t # "boolean" THEN [ok |-> FALSE, v |-> ""]
           ELSE [ok |-> TRUE, v |-> IF b.v = "true" THEN "1" ELSE "0"]
    ELSE IF val.t \in {"null", "undefined"} THEN [ok |-> TRUE, v |-> ""]
    ELSE IF t = "string" /\ val.t \in {"boolean", "number"} THEN [ok |-> TRUE, v |-> val.v]
    ELSE IF val.t = "string" THEN [ok |-> TRUE, v |-> val.v]
    ELSE [ok |-> FALSE, v |-> ""]

\* convertSN(tableName, obj): the columns of the schema that obj has, each
\* converted to its wire string; ok is false when a conversion throws
ConvertSN(schema, obj) ==
    LET ks == DOMAIN schema \cap DOMAIN obj
    IN [ok  |-> \A k \in ks : ConvertValue(schema[k], obj[k]).ok,
        row |-> [k \in ks |-> ConvertValue(schema[k], obj[k]).v]]

\* h.update(`${key}=${row[key]}`) for each key of ks in turn
RECURSIVE HashInput(_, _)
HashInput(row, ks) ==
    IF ks = <<>> THEN ""
    ELSE (IF Head(ks) \in DOMAIN row /\ StartsWithU(Head(ks))
          THEN Head(ks) \o "=" \o row[Head(ks)]
          ELSE "") \o HashInput(row, Tail(ks))

\* crypto md5 digest, taken to be collision free
Md5(m) == "md5:" \o m

\* row[k], with "" for undefined
Field(row, k) == IF k \in DOMAIN row THEN row[k] ELSE ""

\* the primaryKey function of the run applied to a wire row; "" stands for
\* every falsy result.  pk.kind is "string" (pick the field pk.field),
\* "function" (the caller's function, here row => row.name) or "undefined"
\* (hash of the u_ keys and values)
PrimaryKeyOf(pk, row) ==
    CASE pk.kind = "string" -> Field(row, pk.field)
      [] pk.kind = "function" -> Field(row, "name")
      [] OTHER -> Md5(HashInput(row, SortedKeys))

\* an indexing that leaves out the rows convertSN refuses
RECURSIVE IndexRowsSkipping(_, _, _, _, _)
IndexRowsSkipping(rows, schema, pk, i, acc) ==
    IF i > Len(rows) THEN acc
    ELSE LET conv == ConvertSN(schema, rows[i])
             cid  == PrimaryKeyOf(pk, conv.row)
         IN IF ~conv.ok THEN IndexRowsSkipping(rows, schema, pk, i + 1, acc)
            ELSE IF cid # "" /\ cid \in DOMAIN acc.index
            THEN IndexRowsSkipping(rows, schema, pk, i + 1,
                                   [acc EXCEPT !.duplicates = Append(@, i)])
            ELSE IndexRowsSkipping(rows, schema, pk, i + 1,
                           [acc EXCEPT !.index = IF cid # "" THEN (cid :> i) @@ @ ELSE @,
                                       !.processed = Append(@, [src |-> i, row |-> conv.row])])

\* "validate and index all rows" for one of the two lists: processed holds
\* the wire rows kept (src is the position in the list), index maps a key to
\* the position of its first row, duplicates the positions dropped
RECURSIVE IndexRows(_, _, _, _, _)
IndexRows(rows, schema, pk, i, acc) ==
    IF acc.thrown \/ i > Len(rows) THEN acc
    ELSE LET conv == ConvertSN(schema, rows[i])
             cid  == PrimaryKeyOf(pk, conv.row)
         IN IF ~conv.ok THEN [acc EXCEPT !.thrown = TRUE]
            ELSE IF cid # "" /\ cid \in DOMAIN acc.index
            THEN IndexRows(rows, schema, pk, i + 1,
                           [acc EXCEPT !.duplicates = Append(@, i)])
            ELSE IndexRows(rows, schema, pk, i + 1,
                           [acc EXCEPT !.index = IF cid # "" THEN (cid :> i) @@ @ ELSE @,
                                       !.processed = Append(@, [src |-> i, row |-> conv.row])])

EmptyIndex == [thrown |-> FALSE, index |-> EmptyRow, processed |-> <<>>, duplicates |-> <<>>]

\* incomingRow[deletedFlag] = "1" when the flag column is in the schema
MarkExists(row, hasFlag) == IF hasFlag THEN ("u_in_datamart" :> "1") @@ row ELSE row

\* the update payload: the fields of the incoming row that differ from the
\* existing row (undefined counts as ""), or the empty object
Changes(schema, incomingRow, existingRow) ==
    LET ks == { k \in DOMAIN incomingRow \cap DOMAIN schema :
                  incomingRow[k] # Field(existingRow, k) }
    IN [k \in ks |-> incomingRow[k]]

EmptyPlan ==
    [thrown |-> FALSE, create |-> <<>>, update |-> <<>>, delete |-> <<>>,
     matched |-> <<>>, rowsMatched |-> 0,
     dupIncoming |-> <<>>, dupExisting |-> <<>>]

\* "pending creates/updates": the incoming rows kept, in order.  Each entry
\* of create, update and matched records the position (src) of the incoming
\* row it came from, and update and matched the position (ex) of the
\* existing row it was paired with
RECURSIVE PlanIncoming(_, _, _, _, _, _, _)
PlanIncoming(processed, existing, exRows, schema, pk, i, plan) ==
    IF plan.thrown \/ i > Len(processed) THEN plan
    ELSE LET hasFlag     == "u_in_datamart" \in DOMAIN schema
             incomingRow == MarkExists(processed[i].row, hasFlag)
             cid         == PrimaryKeyOf(pk, incomingRow)
             src         == processed[i].src
         IN IF cid \notin DOMAIN existing
            THEN PlanIncoming(processed, existing, exRows, schema, pk, i + 1,
                    [plan EXCEPT !.create = Append(@, [src |-> src, row |-> incomingRow])])
            ELSE LET ex          == existing[cid]
                     existingRow == exRows[ex]
                     payload     == Changes(schema, incomingRow, existingRow)
                 IN IF Field(existingRow, "sys_id") = ""
                    THEN [plan EXCEPT !.thrown = TRUE]
                    ELSE IF DOMAIN payload # {}
                    THEN PlanIncoming(processed, existing, exRows, schema, pk, i + 1,
                            [plan EXCEPT !.update = Append(@,
                               [src |-> src, ex |-> ex,
                                row |-> ("sys_id" :> existingRow["sys_id"])
                                        @@ ("sys_class_name" :> Field(existingRow, "sys_class_name"))
                                        @@ payload])])
                    ELSE PlanIncoming(processed, existing, exRows, schema, pk, i + 1,
                            [plan EXCEPT !.matched = Append(@, [src |-> src, ex |-> ex]),
                                         !.rowsMatched = @ + 1])

\* "check if not in the index": the existing rows kept whose key no incoming
\* row was indexed under, less the rows already flagged "0" in a soft delete
RECURSIVE PlanMissing(_, _, _, _, _, _)
PlanMissing(processed, incoming, pk, allowDeletes, hasFlag, i) ==
    IF i > Len(processed) THEN <<>>
    ELSE LET existingRow == processed[i].row
             cid         == PrimaryKeyOf(pk, existingRow)
             rest        == PlanMissing(processed, incoming, pk, allowDeletes, hasFlag, i + 1)
         IN IF cid = "" \/ cid \in DOMAIN incoming THEN rest
            ELSE IF ~allowDeletes /\ hasFlag /\ Field(existingRow, "u_in_datamart") = "0"
            THEN rest
            ELSE <<processed[i].src>> \o rest

\* the payload of one pending delete
DeletePayload(sysId, hasFlag) ==
    IF hasFlag THEN ("sys_id" :> sysId) @@ ("u_in_datamart" :> "0")
    ELSE ("sys_id" :> sysId)

DeletesPossibleAlways(r) == TRUE

\* "pending deletes (if deletes are possible)"
DeletesPossible(r) == r.allowDeletes \/ r.hasFlag

\* merge(run) from the indexing to the end of the planning
PlanOf(r) ==
    LET schema   == TableSchema(r.hasFlag)
        incoming == IndexRows(r.rows, schema, r.primaryKey, 1, EmptyIndex)
        existing == IF incoming.thrown THEN EmptyIndex
                    ELSE IndexRows(r.existing, schema, r.primaryKey, 1, EmptyIndex)
        exRows   == [j \in 1 .. Len(r.existing) |-> ConvertSN(schema, r.existing[j]).row]
        planned  == PlanIncoming(incoming.processed, existing.index, exRows, schema,
                                 r.primaryKey, 1, EmptyPlan)
        missing  == IF DeletesPossible(r)
                    THEN PlanMissing(existing.processed, incoming.index, r.primaryKey,
                                     r.allowDeletes, r.hasFlag, 1) \o existing.duplicates
                    ELSE <<>>
    IN IF incoming.thrown \/ existing.thrown \/ planned.thrown
       THEN [EmptyPlan EXCEPT !.thrown = TRUE]
       ELSE [planned EXCEPT
               !.delete = [n \in 1 .. Len(missing) |->
                             [ex  |-> missing[n],
                              row |-> DeletePayload(exRows[missing[n]]["sys_id"], r.hasFlag)]],
               !.dupIncoming = incoming.duplicates,
               !.dupExisting = existing.duplicates]

\* the rows a caller may pass: u_name "a", "b" or absent, name "x", "y" or
\* a value that is no string
IncomingRowSet ==
    { (IF u = "" THEN EmptyRow ELSE ("u_name" :> Str(u))) @@ ("name" :> n) :
        u \in {"a", "b", ""}, n \in {Str("x"), Str("y"), Obj} }

\* a row of the remote table as getRecords returns it (typed by convertJS,
\* empty fields left out); the sys_id is set from the position
ExistingRowSet(hasFlag) ==
    { (IF u = "" THEN EmptyRow ELSE ("u_name" :> Str(u)))
        @@ ("name" :> Str("x"))
        @@ ("sys_class_name" :> Str("u_foo"))
        @@ (IF hasFlag THEN ("u_in_datamart" :> Bool(f)) ELSE EmptyRow) :
        u \in {"a", "b", ""}, f \in (IF hasFlag THEN BOOLEAN ELSE {TRUE}) }

SysIds == <<"s1", "s2", "s3", "s4">>

SeqsUpTo(S, n) == UNION { [1 .. k -> S] : k \in 0 .. n }

PrimaryKeys ==
    { [kind |-> "string", field |-> "u_name"],
      [kind |-> "function", field |-> ""],
      [kind |-> "undefined", field |-> ""] }

\* a merge call about to index its rows: every run and every remote table
\* of the model
InitDelta ==
    /\ readOnly = FALSE
    /\ calls = <<>>
    /\ readBucket = 0
    /\ writeBucket = 0
    /\ cache = <<>>
    /\ resolved = {}
    /\ getters = <<>>
    /\ now = 0
    /\ fetches = <<>>
    /\ \E hasFlag \in BOOLEAN, allowDeletes \in BOOLEAN, pk \in PrimaryKeys :
       \E rows \in SeqsUpTo(IncomingRowSet, MaxIncoming),
          ex \in SeqsUpTo(ExistingRowSet(hasFlag), MaxExisting) :
            run = [rows |-> rows,
                   existing |-> [j \in 1 .. Len(ex) |-> ("sys_id" :> Str(SysIds[j])) @@ ex[j]],
                   primaryKey |-> pk, allowDeletes |-> allowDeletes, hasFlag |-> hasFlag]
    /\ mpc = "start"
    /\ pending = EmptyPlan
    /\ remote = <<>>
    /\ policy = <<>>
    /\ exec = <<>>
    /\ sent = {}
    /\ result = <<>>
    /\ desired = <<>>
    /\ rtable = <<>>
    /\ tpc = "none"
    /\ tplan = <<>>
    /\ twrites = <<>>
    /\ commits = [started |-> <<>>, running |-> 0]
    /\ conversion = <<>>
    /\ hierarchy = <<>>
    /\ descriptor = <<>>
    /\ paging = <<>>
    /\ relate = <<>>
    /\ dataPolicies = <<>>
    /\ keying = <<>>
    /\ resync = <<>>
    /\ recordCache = <<>>
    /\ expansion = <<>>
    /\ payloads = <<>>

\* merge() up to the plan: throws on a row that cannot be converted,
\* otherwise the plan is ready
Plan ==
    /\ mpc = "start"
    /\ pending' = PlanOf(run)
    /\ mpc' = IF pending'.thrown THEN "thrown" ELSE "planned"
    /\ UNCHANGED <<run, remote, policy, exec, sent, result>>

NextDelta == Plan /\ UNCHANGED notDeltaVars

SpecDelta == InitDelta /\ [][NextDelta]_vars

(***************************************************************************)
(* Part 3b.  CDelta.merge: execution of the plan against the remote table  *)
(***************************************************************************)

\* longest list of incoming rows and longest remote table of a full run
MaxRows == 2
MaxRemote == 2

API_CONCURRENCY == 40

\* the rows of the remote table as the table API returns them: every column
\* a string, booleans "true" or "false", "" for no value
RemoteRowSet(hasFlag) ==
    { [k \in DOMAIN TableSchema(hasFlag) |->
          CASE k = "name" -> "x"
            [] k = "sys_class_name" -> "u_foo"
            [] k = "u_name" -> u
            [] k = "u_in_datamart" -> f
            [] OTHER -> ""] :
        u \in {"a", "b"}, f \in (IF hasFlag THEN {"true", "false"} ELSE {""}) }

\* the rows a caller passes in a full run
MergeRowSet ==
    { ("u_name" :> Str(r[1])) @@ ("name" :> Str(r[2])) : r \in {<<"a", "x">>, <<"a", "y">>, <<"b", "x">>} }

\* convertJS(tableName, row): columns of the schema with a value, typed
ConvertJS(schema, row) ==
    [k \in { c \in DOMAIN row \cap DOMAIN schema : row[c] # "" } |->
        IF schema[k] = "boolean" THEN Bool(row[k] = "true") ELSE Str(row[k])]

\* getRecords(tableName): every row of the remote table, typed
GetRecords(schema, rows) == [j \in 1 .. Len(rows) |-> ConvertJS(schema, rows[j])]

\* what the remote stores for a value written to column k
Stored(schema, k, v) ==
    IF schema[k] = "boolean" THEN (IF v \in {"1", "true"} THEN "true" ELSE "false") ELSE v

\* POST /v2/table/T applied by the remote: a new row with a fresh sys_id
RemoteCreate(rem, schema, payload) ==
    LET row == [k \in DOMAIN schema |->
                  CASE k = "sys_id" -> "n" \o ToString(rem.nextId)
                    [] k = "sys_class_name" -> "u_foo"
                    [] k \in DOMAIN payload -> Stored(schema, k, payload[k])
                    [] OTHER -> IF schema[k] = "boolean" THEN "false" ELSE ""]
    IN [rows |-> Append(rem.rows, row), nextId |-> rem.nextId + 1]

\* PUT /v2/table/T/sys_id applied by the remote
RemoteUpdate(rem, schema, payload) ==
    [rem EXCEPT !.rows =
        [j \in 1 .. Len(rem.rows) |->
            IF rem.rows[j]["sys_id"] # payload["sys_id"] THEN rem.rows[j]
            ELSE [k \in DOMAIN schema |->
                    IF k \in DOMAIN payload \ {"sys_id", "sys_class_name"}
                    THEN Stored(schema, k, payload[k])
                    ELSE rem.rows[j][k]]]]

\* DELETE /v2/table/T/sys_id applied by the remote
RemoteDelete(rem, sysId) ==
    [rem EXCEPT !.rows = SelectSeq(rem.rows, LAMBDA r : r["sys_id"] # sysId)]

Phases == {"create", "update", "delete"}

MethodOfAlwaysDelete(ph, r) ==
    CASE ph = "create" -> "POST"
      [] ph = "update" -> "PUT"
      [] OTHER -> "DELETE"

\* the HTTP method merge uses for the rows of a phase; "none" when the
\* delete callback issues no request
MethodOf(ph, r) ==
    CASE ph = "create" -> "POST"
      [] ph = "update" -> "PUT"
      [] OTHER -> IF r.allowDeletes THEN "DELETE" ELSE IF r.hasFlag THEN "PUT" ELSE "none"

\* the remote after the write of a phase has been applied
Applied(rem, ph, r, payload) ==
    LET schema == TableSchema(r.hasFlag)
    IN CASE MethodOf(ph, r) = "POST" -> RemoteCreate(rem, schema, payload)
         [] MethodOf(ph, r) = "PUT" -> RemoteUpdate(rem, schema, payload)
         [] MethodOf(ph, r) = "DELETE" -> RemoteDelete(rem, payload["sys_id"])
         [] OTHER -> rem

NoExec == [create |-> <<>>, update |-> <<>>, delete |-> <<>>, failed |-> ""]

\* every row of the plan waits for its request
NewExec(plan) ==
    [create |-> [n \in 1 .. Len(plan.create) |-> "pending"],
     update |-> [n \in 1 .. Len(plan.update) |-> "pending"],
     delete |-> [n \in 1 .. Len(plan.delete) |-> "pending"],
     failed |-> ""]

NoResult == [kind |-> "none"]

CountsWithoutMatched(plan) ==
    [kind |-> "ok", rowsMatched |-> 0, rowsCreated |-> Len(plan.create),
     rowsUpdated |-> Len(plan.update), rowsDeleted |-> Len(plan.delete)]

\* "provide merge results"
Counts(plan) ==
    [kind |-> "ok", rowsMatched |-> plan.rowsMatched, rowsCreated |-> Len(plan.create),
     rowsUpdated |-> Len(plan.update), rowsDeleted |-> Len(plan.delete)]

Thrown == [kind |-> "thrown"]

\* merge(run) is called; getRecords has returned the rows of the remote table
InitMerge ==
    /\ readOnly = FALSE
    /\ calls = <<>>
    /\ readBucket = 0
    /\ writeBucket = 0
    /\ cache = <<>>
    /\ resolved = {}
    /\ getters = <<>>
    /\ now = 0
    /\ fetches = <<>>
    /\ \E hasFlag \in BOOLEAN, allowDeletes \in BOOLEAN, pk \in PrimaryKeys :
       \E rows \in SeqsUpTo(MergeRowSet, MaxRows),
          rem \in SeqsUpTo(RemoteRowSet(hasFlag), MaxRemote) :
            /\ remote = [rows |-> [j \in 1 .. Len(rem) |-> [rem[j] EXCEPT !["sys_id"] = SysIds[j]]],
                         nextId |-> 1]
            /\ run = [rows |-> rows,
                      existing |-> GetRecords(TableSchema(hasFlag), remote.rows),
                      primaryKey |-> pk, allowDeletes |-> allowDeletes, hasFlag |-> hasFlag]
    /\ mpc = "start"
    /\ pending = EmptyPlan
    /\ policy = [active |-> TRUE, disabled |-> FALSE, off |-> 0, on |-> 0]
    /\ exec = NoExec
    /\ sent = {}
    /\ result = [runNo |-> 1, first |-> NoResult, ret |-> NoResult]
    /\ desired = <<>>
    /\ rtable = <<>>
    /\ tpc = "none"
    /\ tplan = <<>>
    /\ twrites = <<>>
    /\ commits = [started |-> <<>>, running |-> 0]
    /\ conversion = <<>>
    /\ hierarchy = <<>>
    /\ descriptor = <<>>
    /\ paging = <<>>
    /\ relate = <<>>
    /\ dataPolicies = <<>>
    /\ keying = <<>>
    /\ resync = <<>>
    /\ recordCache = <<>>
    /\ expansion = <<>>
    /\ payloads = <<>>

\* "No changes": the plan is empty and merge returns without a request
NoChanges ==
    /\ mpc = "planned"
    /\ Len(pending.create) + Len(pending.update) + Len(pending.delete) = 0
    /\ mpc' = "returned"
    /\ result' = [result EXCEPT !.ret = [kind |-> "ok", rowsMatched |-> pending.rowsMatched,
                                         rowsCreated |-> 0, rowsUpdated |-> 0, rowsDeleted |-> 0]]
    /\ UNCHANGED <<run, pending, remote, policy, exec, sent>>

\* a merge that de-activates the data policy whatever the plan holds
ToggleOffAlways ==
    /\ mpc = "planned"
    /\ mpc' = "toggleOff"
    /\ policy' = [policy EXCEPT !.off = @ + 1]
    /\ UNCHANGED <<run, pending, remote, exec, sent, result>>

\* policy.toggle(tableName, false) is called
ToggleOff ==
    /\ mpc = "planned"
    /\ Len(pending.create) + Len(pending.update) + Len(pending.delete) > 0
    /\ mpc' = "toggleOff"
    /\ policy' = [policy EXCEPT !.off = @ + 1]
    /\ UNCHANGED <<run, pending, remote, exec, sent, result>>

\* policy.toggle(tableName, false) returns or throws; after it the creates start
ToggledOff(ok) ==
    /\ mpc = "toggleOff"
    /\ IF ok
       THEN /\ policy' = [policy EXCEPT !.active = FALSE, !.disabled = TRUE]
            /\ mpc' = "create"
            /\ exec' = NewExec(pending)
            /\ UNCHANGED result
       ELSE /\ mpc' = "thrown"
            /\ result' = [result EXCEPT !.ret = Thrown]
            /\ UNCHANGED <<policy, exec>>
    /\ UNCHANGED <<run, pending, remote, sent>>

InFlightRows(ph) == { n \in 1 .. Len(exec[ph]) : exec[ph][n] = "inflight" }

\* sync.each starts the callback of row n of the phase: the request goes out.
\* After the failure of a row the rows of that phase not yet started may
\* still be started, until merge has thrown
Issue(ph, n) ==
    /\ mpc = ph \/ (exec.failed = ph /\ mpc = "toggleOn")
    /\ n \in 1 .. Len(exec[ph])
    /\ exec[ph][n] = "pending"
    /\ Cardinality(InFlightRows(ph)) < API_CONCURRENCY
    /\ IF MethodOf(ph, run) = "none"
       THEN /\ exec' = [exec EXCEPT ![ph][n] = "done"]
            /\ UNCHANGED sent
       ELSE /\ exec' = [exec EXCEPT ![ph][n] = "inflight"]
            /\ sent' = sent \cup {[phase |-> ph, n |-> n, method |-> MethodOf(ph, run),
                                   sysId |-> Field(pending[ph][n].row, "sys_id")]}
    /\ UNCHANGED <<run, mpc, pending, remote, policy, result>>

\* the request of row n completes: applied by the remote, or failed
Complete(ph, n, ok) ==
    /\ mpc \in Phases \cup {"toggleOn"}
    /\ n \in 1 .. Len(exec[ph])
    /\ exec[ph][n] = "inflight"
    /\ exec' = [exec EXCEPT ![ph][n] = IF ok THEN "done" ELSE "failed"]
    /\ remote' = IF ok THEN Applied(remote, ph, run, pending[ph][n].row) ELSE remote
    /\ UNCHANGED <<run, mpc, pending, policy, sent, result>>

AllStarted(ph) == \A n \in 1 .. Len(exec[ph]) : exec[ph][n] # "pending"

\* await sync.each(...) has resolved: every callback of the phase returned
AllDone(ph) == \A n \in 1 .. Len(exec[ph]) : exec[ph][n] = "done"

\* sync.each resolves: the next phase starts, or after the deletes the
\* finally block calls policy.toggle(tableName, true)
PhaseDone(ph) ==
    /\ mpc = ph
    /\ AllDone(ph)
    /\ IF ph = "delete"
       THEN /\ mpc' = "toggleOn"
            /\ policy' = [policy EXCEPT !.on = @ + 1]
       ELSE /\ mpc' = (IF ph = "create" THEN "update" ELSE "delete")
            /\ UNCHANGED policy
    /\ UNCHANGED <<run, pending, remote, exec, sent, result>>

PhaseFailWithoutFinally(ph) ==
    /\ mpc = ph
    /\ \E n \in 1 .. Len(exec[ph]) : exec[ph][n] = "failed"
    /\ exec' = [exec EXCEPT !.failed = ph]
    /\ mpc' = "thrown"
    /\ result' = [result EXCEPT !.ret = Thrown]
    /\ UNCHANGED <<run, pending, remote, sent, policy>>

\* sync.each rejects with the failure of a row: the later phases are
\* skipped and the finally block calls policy.toggle(tableName, true)
PhaseFail(ph) ==
    /\ mpc = ph
    /\ \E n \in 1 .. Len(exec[ph]) : exec[ph][n] = "failed"
    /\ exec' = [exec EXCEPT !.failed = ph]
    /\ mpc' = "toggleOn"
    /\ policy' = [policy EXCEPT !.on = @ + 1]
    /\ UNCHANGED <<run, pending, remote, sent, result>>

\* policy.toggle(tableName, true) returns or throws; merge returns its
\* counts unless the write phase or the toggle threw
ToggledOn(ok) ==
    /\ mpc = "toggleOn"
    /\ policy' = IF ok THEN [policy EXCEPT !.active = TRUE] ELSE policy
    /\ IF ok /\ exec.failed = ""
       THEN /\ mpc' = "returned"
            /\ result' = [result EXCEPT !.ret = Counts(pending)]
       ELSE /\ mpc' = "thrown"
            /\ result' = [result EXCEPT !.ret = Thrown]
    /\ UNCHANGED <<run, pending, remote, exec, sent>>

\* the caller runs merge again with the same rows and options
Rerun ==
    /\ mpc = "returned"
    /\ result.runNo = 1
    /\ run' = [run EXCEPT !.existing = GetRecords(TableSchema(run.hasFlag), remote.rows)]
    /\ mpc' = "start"
    /\ pending' = EmptyPlan
    /\ policy' = [policy EXCEPT !.disabled = FALSE, !.off = 0, !.on = 0]
    /\ exec' = NoExec
    /\ sent' = {}
    /\ result' = [runNo |-> 2, first |-> result.ret, ret |-> NoResult]
    /\ UNCHANGED remote

NextMerge ==
    \/ Plan /\ UNCHANGED notDeltaVars
    \/ NoChanges /\ UNCHANGED notDeltaVars
    \/ ToggleOff /\ UNCHANGED notDeltaVars
    \/ \E ok \in BOOLEAN : ToggledOff(ok) /\ UNCHANGED notDeltaVars
    \/ \E ph \in Phases, n \in 1 .. MaxRows + MaxRemote : Issue(ph, n) /\ UNCHANGED notDeltaVars
    \/ \E ph \in Phases, n \in 1 .. MaxRows + MaxRemote, ok \in BOOLEAN :
          Complete(ph, n, ok) /\ UNCHANGED notDeltaVars
    \/ \E ph \in Phases : PhaseDone(ph) /\ UNCHANGED notDeltaVars
    \/ \E ph \in Phases : PhaseFail(ph) /\ UNCHANGED notDeltaVars
    \/ \E ok \in BOOLEAN : ToggledOn(ok) /\ UNCHANGED notDeltaVars

SpecMerge == InitMerge /\ [][NextMerge]_vars

\* merge called twice in a row
NextMergeTwice ==
    \/ NextMerge
    \/ Rerun /\ UNCHANGED notDeltaVars

SpecMergeTwice == InitMerge /\ [][NextMergeTwice]_vars

(***************************************************************************)
(* Properties of do()                                                      *)
(***************************************************************************)

\* C1: a do() call issues at most 3 HTTP requests, whatever the transport
\* answers.
C1_AtMostThreeRequests == \A c \in CallIds : calls[c].requests <= 3

\* a call that gave up after its third request
C1_Witness ==
    \E c \in CallIds : /\ calls[c].pc = "done"
                       /\ calls[c].requests = 3
                       /\ calls[c].result = "throw:Too many retries"

\* how the attempt that call last finished ended: with one of the three
\* retried error codes, or with a 429 answer
LastAttemptRetriable(call) ==
    IF call.respErr # ""
    THEN call.respErr \in {"ECONNRESET", "EAI_AGAIN", "ETIMEDOUT"}
    ELSE call.resp.status = 429

\* C2: a further attempt is made only when the attempt immediately before it
\* ended with ECONNRESET, EAI_AGAIN, ETIMEDOUT or HTTP 429; an attempt that
\* ends any other way is the last one of the call and decides its outcome.
C2_RetryOnlyAfterRetriable ==
    [][\A c \in CallIds :
        /\ (calls[c].requests > 0 /\ calls'[c].requests > calls[c].requests)
              => LastAttemptRetriable(calls[c])
        /\ (calls[c].pc = "inflight" /\ calls'[c].pc # "inflight"
                /\ ~LastAttemptRetriable(calls'[c]))
              => /\ calls'[c].pc = "done"
                 /\ calls'[c].result = Outcome(calls'[c].resp, calls'[c].respErr)
      ]_vars

\* C3: 429, 429, then 200 with a body: the call succeeds; two 429 answers are
\* followed by a third attempt; three 429 answers: the call throws "Too many
\* retries" with 3 requests issued, and a finished call issues no request.
C3_RetryOn429 ==
    \A c \in CallIds :
        /\ (calls[c].pc = "done" /\ calls[c].requests = 3 /\ calls[c].n429 = 2
               /\ calls[c].respErr = "" /\ calls[c].resp.status = 200
               /\ calls[c].resp.data)
              => calls[c].result = "result"
        /\ (calls[c].pc = "done" /\ calls[c].requests = 2 /\ calls[c].respErr = ""
               /\ calls[c].resp.status = 429)
              => calls[c].n429 < 2
        /\ calls[c].n429 >= 3
              => /\ calls[c].pc = "done"
                 /\ calls[c].result = "throw:Too many retries"
                 /\ calls[c].requests = 3
                 /\ calls[c].n429 = 3

\* 429, 429, 200: the third answer is returned
C3_Witness ==
    \E c \in CallIds : /\ calls[c].pc = "done"
                       /\ calls[c].requests = 3
                       /\ calls[c].n429 = 2
                       /\ calls[c].resp.status = 200
                       /\ calls[c].result = "result"

InFlight(isRead) ==
    { c \in CallIds : calls[c].pc = "inflight"
                      /\ (calls[c].method \in {"GET", "HEAD"}) = isRead }

C5_TokensHeldWhileInFlight ==
    /\ readBucket = Cardinality(InFlight(TRUE))
    /\ writeBucket = Cardinality(InFlight(FALSE))
    /\ (\A c \in CallIds : calls[c].pc = "done") => (readBucket = 0 /\ writeBucket = 0)

\* every call is over, one of them after throwing requests and retries
C5_Witness ==
    /\ \A c \in CallIds : calls[c].pc = "done"
    /\ \E c \in CallIds : calls[c].result = "throw:Too many retries"
    /\ \E c \in CallIds : calls[c].result = "throw:ECONNREFUSED"
    /\ readBucket = 0
    /\ writeBucket = 0

\* C6: in read-only mode a call whose method is not GET or HEAD throws at
\* once, with no request issued and no token taken; GET and HEAD go on to
\* the transport.
C6_ReadOnlyBlocksWrites ==
    /\ [](readOnly => \A c \in CallIds :
            calls[c].method \notin {"", "GET", "HEAD"}
               => calls[c].pc = "done" /\ calls[c].requests = 0)
    /\ [][readOnly => \A c \in CallIds :
            (calls[c].pc = "idle" /\ calls'[c].pc # "idle") =>
               IF calls'[c].method \in {"GET", "HEAD"}
               THEN calls'[c].pc = "take" \/ calls'[c].result = "throw:Missing URL"
               ELSE /\ calls'[c].pc = "done"
                    /\ calls'[c].result \in {"throw:Missing URL",
                                             "throw:read-only mode is enabled"}
                    /\ readBucket' = readBucket
                    /\ writeBucket' = writeBucket
      ]_vars

\* a DELETE refused by the read-only client
C6_Witness ==
    /\ readOnly
    /\ \E c \in CallIds : /\ calls[c].method = "DELETE"
                          /\ calls[c].pc = "done"
                          /\ calls[c].requests = 0
                          /\ calls[c].result = "throw:read-only mode is enabled"

(***************************************************************************)
(* Part 2.  CSchema.get                                                    *)
(***************************************************************************)

\* number of CSchema.get calls in the model
NumGetters == 3
\* the clock stops here
MaxTime == 5
\* const EXPIRE_AFTER = 5 * 60 * 1000, in minutes
EXPIRE_AFTER == 5

Tables == {"u_foo", "u_bar"}

GetterIds == DOMAIN getters

\* tableName in this.cache is false
NoEntry == [kind |-> "none", id |-> 0, expiresAt |-> 0, publishedAt |-> 0]

\* new Promise(d => (done = d)); id names the Promise
PromiseEntry(id) == [kind |-> "promise", id |-> id, expiresAt |-> 0, publishedAt |-> 0]

\* a published schema object: schema[EXPIRES_AT] = +new Date() + EXPIRE_AFTER.
\* id names the object (the fetch that built it) and publishedAt records the
\* time of publication for the properties
SchemaEntry(id, t) ==
    [kind |-> "schema", id |-> id, expiresAt |-> t + EXPIRE_AFTER, publishedAt |-> t]

\* schema instanceof Promise
IsInflightNever(entry) == FALSE
IsInflight(entry) == entry.kind = "promise"

\* +new Date() < schema[EXPIRES_AT]; a Promise has no EXPIRES_AT property, and
\* a number is never below undefined
FreshInclusive(entry, t) == entry.kind = "schema" /\ t <= entry.expiresAt
Fresh(entry, t) == entry.kind = "schema" /\ t < entry.expiresAt

IdleGetter ==
    [pc |-> "idle", table |-> "", invalidate |-> FALSE, waited |-> 0,
     fetch |-> 0, ret |-> 0, thrown |-> FALSE]

\* get() is over: its parameters and locals are gone; the table, the Promise
\* it waited on and what it returned stay for the properties
Over(getter) == [getter EXCEPT !.pc = "done", !.invalidate = FALSE, !.fetch = 0]

\* the ids of the Promises made so far are 1 .. the number of requests issued
RequestsIssued == fetches["u_foo"].req + fetches["u_bar"].req

\* the schema cache after construction; no do() call of Part 1 is modelled
\* here (a fetch is one client.do call that returns or throws)
InitSchema ==
    /\ readOnly = FALSE
    /\ calls = <<>>
    /\ readBucket = 0
    /\ writeBucket = 0
    /\ cache = [t \in Tables |-> NoEntry]
    /\ resolved = {}
    /\ getters = [g \in 1 .. NumGetters |-> IdleGetter]
    /\ now = 0
    /\ fetches = [t \in Tables |-> [req |-> 0, pub |-> 0]]
    /\ run = <<>>
    /\ mpc = "none"
    /\ pending = <<>>
    /\ remote = <<>>
    /\ policy = <<>>
    /\ exec = <<>>
    /\ sent = {}
    /\ result = <<>>
    /\ desired = <<>>
    /\ rtable = <<>>
    /\ tpc = "none"
    /\ tplan = <<>>
    /\ twrites = <<>>
    /\ commits = [started |-> <<>>, running |-> 0]
    /\ conversion = <<>>
    /\ hierarchy = <<>>
    /\ descriptor = <<>>
    /\ paging = <<>>
    /\ relate = <<>>
    /\ dataPolicies = <<>>
    /\ keying = <<>>
    /\ resync = <<>>
    /\ recordCache = <<>>
    /\ expansion = <<>>
    /\ payloads = <<>>

\* the tail of get() from "mark get-schema as inflight": a new Promise goes
\* into the cache and client.do issues GET <table>.do?SCHEMA
StartFetch(g, getter) ==
    LET id == RequestsIssued + 1
    IN /\ cache' = [cache EXCEPT ![getter.table] = PromiseEntry(id)]
       /\ fetches' = [fetches EXCEPT ![getter.table].req = @ + 1]
       /\ getters' = [getters EXCEPT ![g] = [getter EXCEPT !.pc = "fetching", !.fetch = id]]

\* the cache lookup of get(): entry is what this.cache[tableName] holds after
\* the invalidation, or after the wait on an in-flight Promise
Lookup(g, getter, entry) ==
    IF entry.kind # "none" /\ Fresh(entry, now)
    THEN /\ getters' = [getters EXCEPT ![g] = [Over(getter) EXCEPT !.ret = entry.id]]
         /\ UNCHANGED <<cache, fetches>>
    ELSE StartFetch(g, getter)

\* get(tableName, invalidate) up to its first await
Get(g, t, invalidate) ==
    /\ getters[g].pc = "idle"
    /\ LET getter == [getters[g] EXCEPT !.table = t, !.invalidate = invalidate]
           entry  == IF invalidate THEN NoEntry ELSE cache[t]
       IN IF entry.kind # "none" /\ IsInflight(entry)
          THEN /\ getters' = [getters EXCEPT ![g] =
                                [getter EXCEPT !.pc = "waiting", !.waited = entry.id]]
               /\ UNCHANGED <<cache, fetches>>
          ELSE Lookup(g, getter, entry)
    /\ UNCHANGED <<resolved, now>>

\* "await schema" is over: re-load from the cache and go on
Resume(g) ==
    /\ getters[g].pc = "waiting"
    /\ getters[g].waited \in resolved
    /\ Lookup(g, getters[g], cache[getters[g].table])
    /\ UNCHANGED <<resolved, now>>

\* a waiter whose Promise is resolved runs before any timer or response
Runnable == \E g \in GetterIds : getters[g].pc = "waiting" /\ getters[g].waited \in resolved

\* client.do returned a schema document: publish it, call done() and return
FetchOk(g) ==
    /\ getters[g].pc = "fetching"
    /\ ~Runnable
    /\ LET id == getters[g].fetch
           t  == getters[g].table
       IN /\ cache' = [cache EXCEPT ![t] = SchemaEntry(id, now)]
          /\ resolved' = resolved \cup {id}
          /\ fetches' = [fetches EXCEPT ![t].pub = @ + 1]
          /\ getters' = [getters EXCEPT ![g] = [Over(@) EXCEPT !.ret = id]]
    /\ UNCHANGED now

\* client.do threw, or the document has no element array or a column without
\* name or type: get() throws; the Promise stays in the cache, unresolved
FetchFail(g) ==
    /\ getters[g].pc = "fetching"
    /\ ~Runnable
    /\ getters' = [getters EXCEPT ![g] = [Over(@) EXCEPT !.thrown = TRUE]]
    /\ UNCHANGED <<cache, resolved, fetches, now>>

\* a minute passes
Tick ==
    /\ now < MaxTime
    /\ ~Runnable
    /\ now' = now + 1
    /\ UNCHANGED <<cache, resolved, getters, fetches>>

NextSchema ==
    \/ \E g \in GetterIds, t \in Tables, inv \in BOOLEAN : Get(g, t, inv) /\ UNCHANGED notSchemaVars
    \/ \E g \in GetterIds : Resume(g) /\ UNCHANGED notSchemaVars
    \/ \E g \in GetterIds : FetchOk(g) /\ UNCHANGED notSchemaVars
    \/ \E g \in GetterIds : FetchFail(g) /\ UNCHANGED notSchemaVars
    \/ Tick /\ UNCHANGED notSchemaVars

SpecSchema == InitSchema /\ [][NextSchema]_vars

\* the same, with no caller passing invalidate
NextSchemaNoInvalidate ==
    \/ \E g \in GetterIds, t \in Tables : Get(g, t, FALSE) /\ UNCHANGED notSchemaVars
    \/ \E g \in GetterIds : Resume(g) /\ UNCHANGED notSchemaVars
    \/ \E g \in GetterIds : FetchOk(g) /\ UNCHANGED notSchemaVars
    \/ \E g \in GetterIds : FetchFail(g) /\ UNCHANGED notSchemaVars
    \/ Tick /\ UNCHANGED notSchemaVars

SpecSchemaNoInvalidate == InitSchema /\ [][NextSchemaNoInvalidate]_vars

(***************************************************************************)
(* Properties of CSchema.get                                               *)
(***************************************************************************)

Fetching(t) == { g \in GetterIds : getters[g].pc = "fetching" /\ getters[g].table = t }

Returned(g) == getters[g].pc = "done" /\ ~getters[g].thrown

C8_OneInflightPerTable ==
    \A t \in Tables :
        /\ Cardinality(Fetching(t)) <= 1
        /\ \A g \in GetterIds :
              (Returned(g) /\ getters[g].table = t /\ getters[g].waited # 0)
                 => getters[g].ret = getters[g].waited

\* C9: get(T) returns a schema published at time t with no request while
\* now < t + 5 minutes; a get(T) at or after t + 5 starts a new fetch, and
\* the fetch that succeeds publishes a new entry stamped with its own time.
C9_FiveMinuteExpiry ==
    [][\A g \in GetterIds :
        LET t == getters'[g].table
        IN /\ (getters[g].pc = "idle" /\ getters'[g].pc # "idle"
                  /\ ~getters'[g].invalidate /\ cache[t].kind = "schema")
                => IF now < cache[t].publishedAt + 5
                   THEN /\ getters'[g].pc = "done"
                        /\ getters'[g].ret = cache[t].id
                        /\ fetches' = fetches
                        /\ cache' = cache
                   ELSE /\ getters'[g].pc = "fetching"
                        /\ fetches'[t].req = fetches[t].req + 1
                        /\ cache'[t].kind = "promise"
           /\ (getters[g].pc = "fetching" /\ getters'[g].pc = "done"
                  /\ ~getters'[g].thrown)
                => /\ cache'[t].kind = "schema"
                   /\ cache'[t].id = getters'[g].ret
                   /\ cache'[t].publishedAt = now
                   /\ fetches'[t].pub = fetches[t].pub + 1
      ]_vars

\* a schema published once and returned to two callers, and, the five
\* minutes over, the fetch of a third caller that did not pass invalidate
C9_Witness ==
    \E t \in Tables, g, h, k \in GetterIds :
        /\ g # k
        /\ Returned(g) /\ getters[g].table = t /\ getters[g].ret = 1
        /\ Returned(k) /\ getters[k].table = t /\ getters[k].ret = 1
        /\ getters[g].waited = 0 /\ getters[k].waited = 0
        /\ getters[h].pc = "fetching" /\ getters[h].table = t
        /\ ~getters[h].invalidate /\ getters[h].waited = 0
        /\ fetches[t] = [req |-> 2, pub |-> 1]
        /\ now >= 5


(***************************************************************************)
(* Properties of the delta-merge plan                                      *)
(***************************************************************************)

\* positions of the rows passed in and of the rows of the remote table
IncomingIds == 1 .. Len(run.rows)

ExistingIds == 1 .. Len(run.existing)

InList(list, f, id) == \E n \in 1 .. Len(list) : list[n][f] = id

InSeq(list, id) == \E n \in 1 .. Len(list) : list[n] = id

\* how many of the given conditions hold
Count(conds) == Cardinality({ n \in 1 .. Len(conds) : conds[n] })

\* the categories an incoming row is in
IncomingCategories(i) ==
    << InList(pending.matched, "src", i),
       InList(pending.create, "src", i),
       InList(pending.update, "src", i),
       InSeq(pending.dupIncoming, i) >>

\* the categories an existing row is in; a duplicate counts as discarded
\* whether or not the plan also wipes it through the delete list
ExistingCategories(j) ==
    << InList(pending.matched, "ex", j),
       InList(pending.update, "ex", j),
       InList(pending.delete, "ex", j) /\ ~InSeq(pending.dupExisting, j),
       InSeq(pending.dupExisting, j) >>

\* an existing row that planning paired with an incoming row
Paired(j) == InList(pending.matched, "ex", j) \/ InList(pending.update, "ex", j)

\* every incoming row is in exactly one category
C10_IncomingPartition ==
    mpc = "planned" => \A i \in IncomingIds : Count(IncomingCategories(i)) = 1

\* every existing row is in exactly one category
C10_ExistingPartition ==
    mpc = "planned" => \A j \in ExistingIds : Count(ExistingCategories(j)) = 1

\* no existing row paired with an incoming row is in the delete list
C10_PairedNotDeleted ==
    mpc = "planned" => \A j \in ExistingIds : Paired(j) => ~InList(pending.delete, "ex", j)

\* C10: after the planning phase every incoming row is in exactly one of
\* matched, create, update and duplicate-discard, every existing row is in
\* exactly one of matched, update, delete and duplicate-discard, and no
\* existing row paired with an incoming row is in the delete list, for each
\* form of primaryKey and with or without the deletedFlag column.
C10_PlanPartition ==
    /\ C10_IncomingPartition
    /\ C10_ExistingPartition
    /\ C10_PairedNotDeleted


(***************************************************************************)
(* Properties of a merge run                                               *)
(***************************************************************************)

\* the key under which merge indexes incoming row i
IncomingKey(i) ==
    PrimaryKeyOf(run.primaryKey, ConvertSN(TableSchema(run.hasFlag), run.rows[i]).row)

\* the incoming rows with the key of an earlier incoming row
DiscardedIncoming ==
    { i \in 1 .. Len(run.rows) :
        IncomingKey(i) # "" /\ \E j \in 1 .. i - 1 : IncomingKey(j) = IncomingKey(i) }

\* the row write requests of the delete phase: DELETEs and soft-delete updates
DeleteRequests == { s \in sent : s.phase = "delete" }

\* C11: the counts merge returns satisfy rowsCreated + rowsUpdated +
\* rowsMatched = number of incoming rows - number of incoming rows dropped
\* for having the primary key of an earlier incoming row.
C11_CountsCoverIncoming ==
    result.ret.kind = "ok" =>
        result.ret.rowsCreated + result.ret.rowsUpdated + result.ret.rowsMatched
            = Len(run.rows) - Cardinality(DiscardedIncoming)

\* a run that wrote and returned, with a dropped duplicate and a matched row
C11_Witness ==
    /\ result.ret.kind = "ok"
    /\ sent # {}
    /\ DiscardedIncoming # {}
    /\ result.ret.rowsMatched = 1

\* C12: rowsDeleted never exceeds the number of existing rows; without
\* allowDeletes and without the deletedFlag column in the schema rowsDeleted
\* is 0 and the run issues no DELETE and no soft-delete update.
C12_DeletesBounded ==
    /\ result.ret.kind = "ok" => result.ret.rowsDeleted <= Len(run.existing)
    /\ (~run.allowDeletes /\ ~run.hasFlag) =>
          /\ DeleteRequests = {}
          /\ \A s \in sent : s.method # "DELETE"
          /\ result.ret.kind = "ok" => result.ret.rowsDeleted = 0

\* a run without allowDeletes and flag column that wrote and returned while
\* the remote table has rows no incoming row matches
C12_Witness ==
    /\ ~run.allowDeletes /\ ~run.hasFlag
    /\ result.ret.kind = "ok"
    /\ Len(run.existing) = 2
    /\ result.ret.rowsCreated = Len(run.rows)
    /\ sent # {}


\* C13: a second merge with the same rows and options, run after the remote
\* applied every write of the first, returns rowsCreated = rowsUpdated =
\* rowsDeleted = 0 and rowsMatched = the first run's created + updated +
\* matched, and issues no write request.
C13_SecondRunIsNoOp ==
    result.runNo = 2 =>
        /\ sent = {}
        /\ policy.off = 0
        /\ result.ret.kind = "ok" =>
              /\ result.ret.rowsCreated = 0
              /\ result.ret.rowsUpdated = 0
              /\ result.ret.rowsDeleted = 0
              /\ result.ret.rowsMatched =
                    result.first.rowsCreated + result.first.rowsUpdated
                        + result.first.rowsMatched


\* a request of the phase has gone out
Issued(ph) == \E s \in sent : s.phase = ph

\* a request of the phase has failed
Failed(ph) == \E n \in 1 .. Len(exec[ph]) : exec[ph][n] = "failed"

Ended == mpc \in {"returned", "thrown"}

\* C15: once toggle(table, false) has disabled the policy, every way out of
\* the write phase calls toggle(table, true): a run ends with exactly one
\* such call made, the policy is active again unless that call itself
\* threw, and a run in which a row request failed ends by throwing.
C15_PolicyRestoredOnEveryExit ==
    /\ (Ended /\ policy.disabled) =>
          /\ policy.on = 1
          /\ ~policy.active => mpc = "thrown"
    /\ mpc = "returned" => \A ph \in Phases : ~Failed(ph)

\* a run whose update request failed: toggle(true) was called and the run threw
C15_Witness ==
    /\ mpc = "thrown"
    /\ policy.disabled
    /\ Failed("update")
    /\ policy.on = 1
    /\ policy.active

\* C16: an update request goes out only when every create request has
\* completed, and a delete or soft-delete request only when every create and
\* update request has completed; after a failed request no request of a
\* later phase goes out.
C16_PhasesInOrder ==
    /\ Issued("update") => AllDone("create")
    /\ Issued("delete") => AllDone("create") /\ AllDone("update")
    /\ Failed("create") => ~Issued("update") /\ ~Issued("delete")
    /\ Failed("update") => ~Issued("delete")

\* a run with a create, an update and a delete whose delete request is out
C16_Witness ==
    /\ Issued("delete")
    /\ Len(exec.create) >= 1
    /\ Len(exec.update) >= 1

\* the key under which merge indexes existing row j
ExistingKey(j) ==
    PrimaryKeyOf(run.primaryKey, ConvertSN(TableSchema(run.hasFlag), run.existing[j]).row)

\* existing row j has the key of an earlier existing row
DuplicateExisting(j) ==
    ExistingKey(j) # "" /\ \E k \in 1 .. j - 1 : ExistingKey(k) = ExistingKey(j)

\* existing row j has a key and no incoming row has it
Absent(j) ==
    ExistingKey(j) # "" /\ \A i \in 1 .. Len(run.rows) : IncomingKey(i) # ExistingKey(j)

\* existing row j is flagged "0" in the remote table
AlreadyFlagged(j) ==
    /\ "u_in_datamart" \in DOMAIN run.existing[j]
    /\ run.existing[j]["u_in_datamart"] = Bool(FALSE)

\* an update setting the deletedFlag of existing row j to "0" has gone out
SoftDeleted(j) ==
    \E s \in DeleteRequests :
        /\ s.method = "PUT"
        /\ s.sysId = run.existing[j]["sys_id"].v
        /\ Field(pending.delete[s.n].row, "u_in_datamart") = "0"

\* a DELETE of existing row j has gone out
HardDeleted(j) ==
    \E s \in DeleteRequests : s.method = "DELETE" /\ s.sysId = run.existing[j]["sys_id"].v

ExistingRows == 1 .. Len(run.existing)

\* C17 as stated: without allowDeletes no DELETE goes out, and an existing
\* row is soft-deleted only when the flag column is in the schema and the
\* row is not already flagged "0"; with allowDeletes the rows absent from
\* the incoming set are removed with DELETE.
C17_AsStated ==
    /\ ~run.allowDeletes =>
          /\ \A s \in sent : s.method # "DELETE"
          /\ \A j \in ExistingRows : SoftDeleted(j) => run.hasFlag /\ ~AlreadyFlagged(j)
    /\ (run.allowDeletes /\ mpc = "returned") =>
          \A j \in ExistingRows : Absent(j) => HardDeleted(j)

\* C17: without allowDeletes no DELETE goes out; an existing row that is no
\* duplicate is soft-deleted (update setting the flag to "0") only when the
\* flag column is in the schema and the row is not already flagged "0", and
\* a run that returns has soft-deleted every such row absent from the
\* incoming set; duplicates of an earlier existing row are soft-deleted
\* whenever the flag column is in the schema, flagged or not.  With
\* allowDeletes every request of the delete phase is a DELETE and a run that
\* returns has deleted every absent row and every duplicate.
C17_DeleteMethod ==
    /\ ~run.allowDeletes =>
          /\ \A s \in sent : s.method # "DELETE"
          /\ \A j \in ExistingRows :
                (SoftDeleted(j) /\ ~DuplicateExisting(j)) => run.hasFlag /\ ~AlreadyFlagged(j)
          /\ (mpc = "returned" /\ run.hasFlag) =>
                \A j \in ExistingRows :
                    (DuplicateExisting(j) \/ (Absent(j) /\ ~AlreadyFlagged(j))) => SoftDeleted(j)
    /\ run.allowDeletes =>
          /\ \A s \in DeleteRequests : s.method = "DELETE"
          /\ mpc = "returned" =>
                \A j \in ExistingRows : (DuplicateExisting(j) \/ Absent(j)) => HardDeleted(j)

\* a run without allowDeletes that returned after soft-deleting a duplicate
\* already flagged "0" and an absent row flagged "1"
C17_Witness ==
    /\ mpc = "returned"
    /\ ~run.allowDeletes
    /\ \E j \in ExistingRows : DuplicateExisting(j) /\ AlreadyFlagged(j) /\ SoftDeleted(j)
    /\ \E j \in ExistingRows : ~DuplicateExisting(j) /\ Absent(j) /\ SoftDeleted(j)

(***************************************************************************)
(* Part 4.  Table sync: CTable.sync, CTable.commitAll, CTable.get and      *)
(* CColumn.sync / create / update / delete.                                *)
(*                                                                         *)
(* The desired table has the name TableName; the remote table of that name *)
(* may or may not exist, and may extend ParentName.  A raw column is a row *)
(* of sys_dictionary joined with what getRaw attaches to it (the choice    *)
(* list and the data policy rule of the column); its field `name` is the   *)
(* table the column is defined on.  Absent properties are Undef, an absent *)
(* number is NoChoice (choice) or 0 (a max_length that is not given).      *)
(* Labels are always given in the desired columns, so that the default     *)
(* label of expandColumn (titlize, util.js) is never needed.               *)
(***************************************************************************)
Undef == "undefined"

NoChoice == 0 - 1

TableName == "u_t"

ParentName == "u_parent"

Username == "sync_user"

OtherUser == "admin"

StartsWithUnderscoreU(name) ==
    name \in {"u_a", "u_b", "u_c", "u_t", "u_parent", "u_u_b"}

HasCmdb(tableName) == tableName \in {"u_cmdb_ci_t"}

\* expandColumn: the default max_length of each type, applied when the
\* desired column gives none
DefaultLength(type) ==
    CASE type = "text" -> 65000
      [] type = "string" -> 255
      [] type \in {"integer", "float", "decimal", "boolean"} -> 40
      [] type = "glide_date_time" -> 40
      [] type \in {"reference", "guid"} -> 32

ExpandColumn(col) ==
    [col EXCEPT !.type = IF @ = "date" THEN "glide_date_time" ELSE @,
                !.max_length = IF @ = 0
                               THEN DefaultLength(IF col.type = "date"
                                                  THEN "glide_date_time"
                                                  ELSE col.type)
                               ELSE @]

\* expandTable: a column without a name is named after its key
ExpandTable(tableName, columns) ==
    [id \in DOMAIN columns |->
        ExpandColumn([columns[id] EXCEPT !.name =
            IF @ # Undef THEN @
            ELSE IF HasCmdb(tableName) /\ id = "name" THEN id
            ELSE "u_" \o id])]

\* getRaw: the data policy of a column, from the rule this user created
DataPolicyOf(rule) ==
    CASE rule = "true" -> "readonly"
      [] rule = "false" -> "writable"
      [] OTHER -> Undef

\* CTable.get: one column of the table information, from its raw column
GetColumn(raw) ==
    [name |-> raw.element,
     sys_id |-> raw.sys_id,
     label |-> raw.column_label,
     table |-> raw.name,
     type |-> raw.internal_type,
     reference_table |-> raw.reference,
     max_length |-> raw.max_length,
     choice |-> CASE raw.choice = 0 -> Undef
                  [] raw.choice = 1 -> "nullable"
                  [] raw.choice = 2 -> "suggestion"
                  [] raw.choice = 3 -> "required",
     choice_map |-> raw.choice_map,
     data_policy |-> DataPolicyOf(raw.rule),
     sys_created_by |-> raw.sys_created_by]

\* CTable.get: null when the table does not exist, else its parent and the
\* columns of the whole hierarchy
TableGet(rem) ==
    IF ~rem.exists THEN [found |-> FALSE]
    ELSE [found |-> TRUE,
          parent |-> rem.parent,
          columns |-> [n \in DOMAIN rem.columns |-> GetColumn(rem.columns[n])]]

\* CColumn.sync: the number an existing choice string stands for
ChoiceNumber(v) ==
    CASE v = "nullable" -> 1
      [] v = "suggestion" -> 2
      [] v = "required" -> 3
      [] OTHER -> NoChoice

\* the keys of label, max_length, choice whose desired value differs
ChangedFields(ecol, col) ==
    {k \in {"label", "max_length"} : col[k] # ecol[k]}
    \cup {k \in {"choice"} : col.choice # NoChoice
                              /\ col.choice # ChoiceNumber(ecol.choice)}

ChangedChoices(ecol, col) ==
    col.choice_map # Undef /\ col.choice_map # ecol.choice_map

ChangedDataPolicy(ecol, col) == col.data_policy # ecol.data_policy

\* the column sent by the update: name, sys_id and every changed property
NCol(ecol, col) ==
    LET keys == ChangedFields(ecol, col)
                \cup (IF ChangedChoices(ecol, col) THEN {"choice_map"} ELSE {})
                \cup (IF ChangedDataPolicy(ecol, col) THEN {"data_policy"}
                      ELSE {})
    IN  [k \in {"name", "sys_id"} \cup keys |->
            CASE k = "name" -> col.name
              [] k = "sys_id" -> ecol.sys_id
              [] OTHER -> col[k]]

\* the first of type, reference_table that the desired column gives and
\* that differs from the existing one; Undef when both match
Mismatch(ecol, col) ==
    IF col.type # ecol.type THEN "type"
    ELSE IF col.reference_table # Undef
            /\ col.reference_table # ecol.reference_table
         THEN "reference_table"
    ELSE Undef

NoAction == [type |-> "none"]

ErrorAction(name, description) ==
    [name |-> name, type |-> "error", description |-> description]

\* CColumn.sync, the body of its first loop: the pending action of one
\* desired column, NoAction when the loop continues without one
PlanColumn(tableName, existingColumns, col) ==
    IF col.id # col.name /\ col.id \in DOMAIN existingColumns
    THEN ErrorAction(col.id, <<"already exists", col.id, col.name>>)
    ELSE IF col.name \notin DOMAIN existingColumns
    THEN IF ~StartsWithUnderscoreU(col.name)
         THEN ErrorAction(col.name, <<"create not allowed", col.name>>)
         ELSE [name |-> col.name, type |-> "create",
               description |-> <<"create", col.name>>, commit |-> col]
    ELSE
    LET ecol == existingColumns[col.name]
        changedField == ChangedFields(ecol, col) # {}
        changed == changedField \/ ChangedChoices(ecol, col)
                   \/ ChangedDataPolicy(ecol, col)
        k == Mismatch(ecol, col)
    IN  IF ~changed THEN NoAction
        ELSE IF k # Undef
        THEN ErrorAction(col.name, <<"differs", k, ecol[k], col[k]>>)
        ELSE IF changedField /\ tableName # ecol.table
        THEN ErrorAction(col.name, <<"on parent table", ecol.table>>)
        ELSE IF changedField /\ ~StartsWithUnderscoreU(col.name)
        THEN ErrorAction(col.name, <<"out-of-the-box", col.name>>)
        ELSE [name |-> col.name, type |-> "update",
              description |-> <<"update", col.name>>,
              commit |-> NCol(ecol, col)]

\* a second loop that deletes columns whoever created them
DeletableColumnsOfAnyUser(tableName, existingColumns, newColumns) ==
    {n \in DOMAIN existingColumns :
        /\ StartsWithUnderscoreU(n)
        /\ \A id \in DOMAIN newColumns : newColumns[id].name # n
        /\ existingColumns[n].table = tableName}

\* CColumn.sync, its second loop: the existing columns to delete
DeletableColumns(tableName, existingColumns, newColumns) ==
    {n \in DOMAIN existingColumns :
        /\ StartsWithUnderscoreU(n)
        /\ \A id \in DOMAIN newColumns : newColumns[id].name # n
        /\ existingColumns[n].table = tableName
        /\ existingColumns[n].sys_created_by = Username}

DeleteAction(name) ==
    [name |-> name, type |-> "delete", description |-> <<"delete", name>>,
     commit |-> name]

\* CColumn.sync: the pending actions, keyed by the key of the desired
\* column, or by the column name for a delete (written last)
ColumnSync(tableName, existingColumns, newColumns) ==
    LET planned == {id \in DOMAIN newColumns :
                      PlanColumn(tableName, existingColumns, newColumns[id])
                      # NoAction}
        deleted == DeletableColumns(tableName, existingColumns, newColumns)
    IN  [key \in planned \cup deleted |->
            IF key \in deleted THEN DeleteAction(key)
            ELSE PlanColumn(tableName, existingColumns, newColumns[key])]

(***************************************************************************)
(* Column planning on its own: CColumn.sync applied to one desired column  *)
(* and to the columns CTable.get reads from a remote table that extends    *)
(* ParentName.                                                             *)
(***************************************************************************)
TypePairs ==
    {<<"string", Undef>>, <<"integer", Undef>>,
     <<"reference", "u_x">>, <<"reference", "u_y">>}

DesiredColumnSet ==
    {[id |-> i, name |-> n, type |-> tp[1], reference_table |-> tp[2],
      label |-> "A", max_length |-> ml, choice |-> c, choice_map |-> cm,
      data_policy |-> dp] :
        i \in {Undef, "u_b"}, n \in {Undef, "name"}, tp \in TypePairs,
        ml \in {0, 40}, c \in {NoChoice, 1}, cm \in {Undef, "m1"},
        dp \in {Undef, "readonly"}}

RawColumn(element, table, by, tp, label, ml, c, cm, rule) ==
    [element |-> element, sys_id |-> "id_" \o element, name |-> table,
     sys_created_by |-> by, internal_type |-> tp[1], reference |-> tp[2],
     column_label |-> label, max_length |-> ml, choice |-> c,
     choice_map |-> cm, rule |-> rule]

RawColumnSet(element) ==
    {RawColumn(element, t, Username, tp, l, ml, c, cm, r) :
        t \in {TableName, ParentName}, tp \in TypePairs, l \in {"A", "B"},
        ml \in {40, 255}, c \in {0, 1}, cm \in {Undef, "m1"},
        r \in {"none", "true"}}

OtherColumnSet ==
    {RawColumn("u_b", TableName, by, <<"string", Undef>>, "B", 255, 0,
               Undef, "none") : by \in {Username, OtherUser}}

NoColumns == [n \in {} |-> n]

RemoteColumnsSet ==
    {p @@ o :
        p \in {NoColumns}
              \cup {n :> r : n \in {"u_a"}, r \in RawColumnSet("u_a")}
              \cup {n :> r : n \in {"name"}, r \in RawColumnSet("name")},
        o \in {NoColumns} \cup {n :> r : n \in {"u_b"}, r \in OtherColumnSet}}

InitColumns ==
    /\ readOnly = FALSE
    /\ calls = <<>>
    /\ readBucket = 0
    /\ writeBucket = 0
    /\ cache = <<>>
    /\ resolved = <<>>
    /\ getters = <<>>
    /\ now = 0
    /\ fetches = 0
    /\ run = <<>>
    /\ mpc = "none"
    /\ pending = <<>>
    /\ remote = <<>>
    /\ policy = <<>>
    /\ exec = <<>>
    /\ sent = {}
    /\ result = <<>>
    /\ desired \in {[name |-> TableName, order |-> <<"a">>,
                     columns |-> [id \in {"a"} |-> c]] :
                      c \in DesiredColumnSet}
    /\ rtable \in {[exists |-> TRUE, parent |-> ParentName, columns |-> cs] :
                      cs \in RemoteColumnsSet}
    /\ tpc = "start"
    /\ tplan = <<>>
    /\ twrites = <<>>
    /\ commits = [started |-> <<>>, running |-> 0]
    /\ conversion = <<>>
    /\ hierarchy = <<>>
    /\ descriptor = <<>>
    /\ paging = <<>>
    /\ relate = <<>>
    /\ dataPolicies = <<>>
    /\ keying = <<>>
    /\ resync = <<>>
    /\ recordCache = <<>>
    /\ expansion = <<>>
    /\ payloads = <<>>

\* client.column.sync(tableName, existingColumns, newColumns)
PlanColumns ==
    /\ tpc = "start"
    /\ tplan' = ColumnSync(desired.name, TableGet(rtable).columns,
                           ExpandTable(desired.name, desired.columns))
    /\ tpc' = "planned"
    /\ UNCHANGED <<desired, rtable, twrites, commits>>
    /\ UNCHANGED notTableVars

NextColumns == PlanColumns

SpecColumns == InitColumns /\ [][NextColumns]_vars

(***************************************************************************)
(* Table sync with commit: CTable.sync(table, {commit: true}) against a    *)
(* remote that holds one table, followed by a second sync(table) of the    *)
(* same desired spec once the first has returned.                          *)
(*                                                                         *)
(* The remote stores what a request carries in the fields sys_dictionary   *)
(* has: snColumn renames name, type and label, and the other keys of a     *)
(* column spec (reference_table, choice_map, data_policy, id) are no       *)
(* fields of sys_dictionary.  client.choice.sync leaves the choice list of *)
(* the column equal to the desired map, policy.syncData leaves one rule    *)
(* for the column with disabled = String(readOnly).  twrites lists the     *)
(* write requests (POST, PUT, DELETE) in the order they are issued, each   *)
(* by its target table; a request that fails has still been issued.        *)
(***************************************************************************)
\* the order in which CTable.get lists the existing columns
ExistingOrder == <<"name", "u_a", "u_b", "u_c">>

InSeqOf(seq, k) == \E i \in 1 .. Len(seq) : seq[i] = k

\* the keys of the plan ordered by name, whatever the desired order is
CommitOrderByName(order, columns) ==
    SelectSeq(<<"a", "b">> \o ExistingOrder, LAMBDA k : k \in DOMAIN columns)

\* Object.values(pending.columns): the keys in insertion order, first the
\* keys of the desired columns in their iteration order, then the names of
\* the columns to delete
CommitOrder(order, columns) ==
    SelectSeq(order \o SelectSeq(ExistingOrder, LAMBDA k : ~InSeqOf(order, k)),
              LAMBDA k : k \in DOMAIN columns)

HasErrors(columns) ==
    \E k \in DOMAIN columns : columns[k].type = "error"

NoPlan == [table |-> FALSE, hasColumns |-> FALSE, columns |-> NoColumns,
           todo |-> <<>>]

\* CTable.sync up to the commit: the pending actions for the remote table
PendingOf(table, rem) ==
    LET existingTable == TableGet(rem)
    IN  IF ~existingTable.found
        THEN [NoPlan EXCEPT !.table = TRUE]
        ELSE LET columns == ColumnSync(table.name, existingTable.columns,
                                       ExpandTable(table.name, table.columns))
             IN  [table |-> FALSE, hasColumns |-> TRUE, columns |-> columns,
                  todo |-> CommitOrder(table.order, columns)]

ParentMismatch(table, rem) ==
    /\ TableGet(rem).found
    /\ table.parent # Undef
    /\ table.parent # TableGet(rem).parent

\* CTable.create: POST sys_db_object
TableCreate(table, rem) ==
    [exists |-> TRUE, parent |-> table.parent, columns |-> NoColumns]

Truthy(choice) == choice # NoChoice /\ choice # 0

\* String(readOnly)
BoolString(b) == IF b THEN "true" ELSE "false"

\* CColumn.create: POST sys_dictionary, then the choice list and the data
\* policy rule when the column spec has them
ColumnCreate(tableName, col, rem) ==
    [rem EXCEPT !.columns = (col.name :>
        [element |-> col.name, sys_id |-> "id_" \o col.name,
         name |-> tableName, sys_created_by |-> Username,
         internal_type |-> col.type, reference |-> Undef,
         column_label |-> col.label, max_length |-> col.max_length,
         choice |-> IF col.choice = NoChoice THEN 0 ELSE col.choice,
         choice_map |-> IF Truthy(col.choice) /\ col.choice_map # Undef
                        THEN col.choice_map ELSE Undef,
         rule |-> IF col.data_policy # Undef
                  THEN BoolString(col.data_policy = "readonly")
                  ELSE "none"]) @@ @]

ColumnCreateWrites(col) ==
    <<"POST sys_dictionary">>
    \o (IF Truthy(col.choice) /\ col.choice_map # Undef
        THEN <<"sys_choice">> ELSE <<>>)
    \o (IF col.data_policy # Undef THEN <<"sys_data_policy_rule">> ELSE <<>>)

Has(ncol, k) == k \in DOMAIN ncol /\ ncol[k] # Undef

\* CColumn.update throws for a column that is not a user column
UpdateRefused(ncol) ==
    Cardinality(DOMAIN ncol) > 2 /\ ~StartsWithUnderscoreU(ncol.name)

\* CColumn.update: PUT sys_dictionary with the changed properties, then the
\* choice list and the data policy rule when the update has them
ColumnUpdate(ncol, rem) ==
    [rem EXCEPT !.columns[ncol.name] =
        [@ EXCEPT !.column_label = IF "label" \in DOMAIN ncol
                                   THEN ncol.label ELSE @,
                  !.max_length = IF "max_length" \in DOMAIN ncol
                                 THEN ncol.max_length ELSE @,
                  !.choice = IF "choice" \in DOMAIN ncol
                             THEN ncol.choice ELSE @,
                  !.choice_map = IF Has(ncol, "choice_map")
                                 THEN ncol.choice_map ELSE @,
                  !.rule = IF Has(ncol, "data_policy")
                           THEN BoolString(ncol.data_policy = "readonly")
                           ELSE @]]

ColumnUpdateWrites(ncol) ==
    (IF Cardinality(DOMAIN ncol) > 2 THEN <<"PUT sys_dictionary">> ELSE <<>>)
    \o (IF Has(ncol, "choice_map") THEN <<"sys_choice">> ELSE <<>>)
    \o (IF Has(ncol, "data_policy") THEN <<"sys_data_policy_rule">>
        ELSE <<>>)

\* CColumn.delete: DELETE sys_dictionary
ColumnDelete(name, rem) ==
    [rem EXCEPT !.columns = [n \in DOMAIN @ \ {name} |-> @[n]]]

\* change.commit() of one pending column action
CommitRemote(tableName, change, rem) ==
    CASE change.type = "create" -> ColumnCreate(tableName, change.commit, rem)
      [] change.type = "update" -> ColumnUpdate(change.commit, rem)
      [] change.type = "delete" -> ColumnDelete(change.commit, rem)

CommitWrites(change) ==
    CASE change.type = "create" -> ColumnCreateWrites(change.commit)
      [] change.type = "update" -> ColumnUpdateWrites(change.commit)
      [] change.type = "delete" -> <<"DELETE sys_dictionary">>

SyncColumnSet ==
    {[id |-> Undef, name |-> n, type |-> t, reference_table |-> Undef,
      label |-> "A", max_length |-> 0, choice |-> c, choice_map |-> cm,
      data_policy |-> dp] :
        n \in {Undef, "name"}, t \in {"string", "integer"},
        c \in {NoChoice, 1}, cm \in {Undef, "m1"},
        dp \in {Undef, "readonly"}}

SyncRawColumnSet(element) ==
    {RawColumn(element, TableName, Username, <<t, Undef>>, l, ml, c, cm, r) :
        t \in {"string", "integer"}, l \in {"A", "B"}, ml \in {40, 255},
        c \in {0, 1}, cm \in {Undef, "m1"}, r \in {"none", "true"}}

SyncRemoteColumnsSet ==
    {p @@ o :
        p \in {NoColumns}
              \cup {n :> r : n \in {"u_a"}, r \in SyncRawColumnSet("u_a")}
              \cup {n :> r : n \in {"name"}, r \in SyncRawColumnSet("name")},
        o \in {NoColumns} \cup {n :> r : n \in {"u_b"}, r \in OtherColumnSet}}

InitTable ==
    /\ readOnly = FALSE
    /\ calls = <<>>
    /\ readBucket = 0
    /\ writeBucket = 0
    /\ cache = <<>>
    /\ resolved = <<>>
    /\ getters = <<>>
    /\ now = 0
    /\ fetches = 0
    /\ run = <<>>
    /\ mpc = "none"
    /\ pending = <<>>
    /\ remote = <<>>
    /\ policy = <<>>
    /\ exec = <<>>
    /\ sent = {}
    /\ result = <<>>
    /\ desired \in {[name |-> TableName, parent |-> p, order |-> <<"a">>,
                     columns |-> [id \in {"a"} |-> c]] :
                      p \in {Undef, ParentName}, c \in SyncColumnSet}
    /\ rtable \in {[exists |-> FALSE, parent |-> Undef, columns |-> NoColumns]}
                  \cup {[exists |-> TRUE, parent |-> p, columns |-> cs] :
                          p \in {Undef, ParentName},
                          cs \in SyncRemoteColumnsSet}
    /\ tpc = "start"
    /\ tplan = NoPlan
    /\ twrites = <<>>
    /\ commits = [started |-> <<>>, running |-> 0]
    /\ conversion = <<>>
    /\ hierarchy = <<>>
    /\ descriptor = <<>>
    /\ paging = <<>>
    /\ relate = <<>>
    /\ dataPolicies = <<>>
    /\ keying = <<>>
    /\ resync = <<>>
    /\ recordCache = <<>>
    /\ expansion = <<>>
    /\ payloads = <<>>

\* sync(table, {commit: true}) up to the call of commitAll
SyncStart ==
    /\ tpc = "start"
    /\ IF ParentMismatch(desired, rtable)
       THEN /\ tpc' = "threw parent mismatch"
            /\ UNCHANGED tplan
       ELSE /\ tplan' = PendingOf(desired, rtable)
            /\ tpc' = IF tplan'.table THEN "commitTable" ELSE "commitColumns"
    /\ UNCHANGED <<desired, rtable, twrites, commits>>
    /\ UNCHANGED notTableVars

\* commitAll: pending.table.commit() is called, the POST of the new table
\* is issued
StartTable ==
    /\ tpc = "commitTable"
    /\ commits.running = 0
    /\ commits' = [started |-> Append(commits.started, "table"),
                   running |-> 1]
    /\ twrites' = Append(twrites, "POST sys_db_object")
    /\ tpc' = "tableRunning"
    /\ UNCHANGED <<desired, rtable, tplan>>
    /\ UNCHANGED notTableVars

\* commitAll: pending.table.commit() settles
EndTable(ok) ==
    /\ tpc = "tableRunning"
    /\ commits' = [commits EXCEPT !.running = @ - 1]
    /\ IF ok
       THEN /\ rtable' = TableCreate(desired, rtable)
            /\ tpc' = "resync"
       ELSE /\ tpc' = "threw request failed"
            /\ UNCHANGED rtable
    /\ UNCHANGED <<desired, tplan, twrites>>
    /\ UNCHANGED notTableVars

\* after a new table: p = await this.sync(table), then commitAll(p)
Resync ==
    /\ tpc = "resync"
    /\ IF ParentMismatch(desired, rtable)
       THEN /\ tpc' = "threw parent mismatch"
            /\ UNCHANGED tplan
       ELSE /\ tplan' = PendingOf(desired, rtable)
            /\ tpc' = IF ~tplan'.table /\ tplan'.hasColumns
                      THEN "commitColumns"
                      ELSE "threw expected new cols"
    /\ UNCHANGED <<desired, rtable, twrites, commits>>
    /\ UNCHANGED notTableVars

\* commitAll: the plan has an action of type error
RejectErrors ==
    /\ tpc = "commitColumns"
    /\ HasErrors(tplan.columns)
    /\ tpc' = "threw errors"
    /\ UNCHANGED <<desired, rtable, tplan, twrites, commits>>
    /\ UNCHANGED notTableVars

\* a commitAll that calls the commit() of any pending column action
\* without waiting for the one before it
StartColumnInAnyOrder ==
    /\ tpc = "commitColumns"
    /\ ~HasErrors(tplan.columns)
    /\ \E i \in 1 .. Len(tplan.todo) :
        LET change == tplan.columns[tplan.todo[i]]
        IN  /\ ~InSeqOf(commits.started, tplan.todo[i])
            /\ ~(change.type = "update" /\ UpdateRefused(change.commit))
            /\ tplan' = [tplan EXCEPT !.todo = <<tplan.todo[i]>>
                            \o SelectSeq(@, LAMBDA k : k # tplan.todo[i])]
            /\ commits' = [started |-> Append(commits.started, tplan.todo[i]),
                           running |-> commits.running + 1]
            /\ twrites' = twrites \o CommitWrites(change)
    /\ UNCHANGED <<desired, rtable, tpc>>
    /\ UNCHANGED notTableVars

\* commitAll: change.commit() of the next pending column action is called
\* once the one before it has settled; its requests are issued
StartColumn ==
    /\ tpc = "commitColumns"
    /\ ~HasErrors(tplan.columns)
    /\ commits.running = 0
    /\ tplan.todo # <<>>
    /\ LET change == tplan.columns[Head(tplan.todo)]
       IN  IF change.type = "update" /\ UpdateRefused(change.commit)
           THEN /\ tpc' = "threw not a user column"
                /\ UNCHANGED <<twrites, commits>>
           ELSE /\ commits' = [started |-> Append(commits.started,
                                                  Head(tplan.todo)),
                               running |-> 1]
                /\ twrites' = twrites \o CommitWrites(change)
                /\ tpc' = tpc
    /\ UNCHANGED <<desired, rtable, tplan>>
    /\ UNCHANGED notTableVars

\* commitAll: the running change.commit() settles
EndColumn(ok) ==
    /\ tpc = "commitColumns"
    /\ commits.running > 0
    /\ commits' = [commits EXCEPT !.running = @ - 1]
    /\ tplan' = [tplan EXCEPT !.todo = Tail(@)]
    /\ IF ok
       THEN /\ rtable' = CommitRemote(desired.name,
                                      tplan.columns[Head(tplan.todo)], rtable)
            /\ tpc' = tpc
       ELSE /\ tpc' = "threw request failed"
            /\ UNCHANGED rtable
    /\ UNCHANGED <<desired, twrites>>
    /\ UNCHANGED notTableVars

\* every pending action is committed: sync returns true
SyncReturn ==
    /\ tpc = "commitColumns"
    /\ ~HasErrors(tplan.columns)
    /\ commits.running = 0
    /\ tplan.todo = <<>>
    /\ tpc' = "done"
    /\ UNCHANGED <<desired, rtable, tplan, twrites, commits>>
    /\ UNCHANGED notTableVars

\* a second sync(table) of the same desired spec: it returns its plan
SecondSync ==
    /\ tpc = "done"
    /\ IF ParentMismatch(desired, rtable)
       THEN /\ tpc' = "second threw parent mismatch"
            /\ UNCHANGED tplan
       ELSE /\ tplan' = PendingOf(desired, rtable)
            /\ tpc' = "second"
    /\ UNCHANGED <<desired, rtable, twrites, commits>>
    /\ UNCHANGED notTableVars

NextTable ==
    \/ SyncStart
    \/ StartTable
    \/ \E ok \in BOOLEAN : EndTable(ok)
    \/ Resync
    \/ RejectErrors
    \/ StartColumn
    \/ \E ok \in BOOLEAN : EndColumn(ok)
    \/ SyncReturn
    \/ SecondSync

SpecTable == InitTable /\ [][NextTable]_vars

(***************************************************************************)
(* The order of the commits: sync with commit of a table with two desired  *)
(* columns, a and b, iterated in either order, against a remote table that *)
(* is missing or holds any of u_a, u_b and u_c.                            *)
(***************************************************************************)
CommitColumnSet ==
    {[id |-> Undef, name |-> n, type |-> "string",
      reference_table |-> Undef, label |-> "A", max_length |-> 0,
      choice |-> NoChoice, choice_map |-> Undef, data_policy |-> dp] :
        n \in {Undef, "name"}, dp \in {Undef, "readonly"}}

CommitRawColumnSet(element) ==
    {RawColumn(element, TableName, Username, <<"string", Undef>>, l, 255, 0,
               Undef, "none") : l \in {"A", "B"}}

Optional(element) ==
    {NoColumns} \cup {n :> r : n \in {element}, r \in CommitRawColumnSet(element)}

CommitRemoteColumnsSet ==
    {a @@ b @@ c : a \in Optional("u_a"), b \in Optional("u_b"),
                   c \in Optional("u_c")}

InitCommit ==
    /\ readOnly = FALSE
    /\ calls = <<>>
    /\ readBucket = 0
    /\ writeBucket = 0
    /\ cache = <<>>
    /\ resolved = <<>>
    /\ getters = <<>>
    /\ now = 0
    /\ fetches = 0
    /\ run = <<>>
    /\ mpc = "none"
    /\ pending = <<>>
    /\ remote = <<>>
    /\ policy = <<>>
    /\ exec = <<>>
    /\ sent = {}
    /\ result = <<>>
    /\ desired \in {[name |-> TableName, parent |-> Undef, order |-> o,
                     columns |-> [id \in {"a", "b"} |->
                                     IF id = "a" THEN ca ELSE cb]] :
                      o \in {<<"a", "b">>, <<"b", "a">>},
                      ca \in CommitColumnSet, cb \in CommitColumnSet}
    /\ rtable \in {[exists |-> FALSE, parent |-> Undef, columns |-> NoColumns]}
                  \cup {[exists |-> TRUE, parent |-> Undef, columns |-> cs] :
                          cs \in CommitRemoteColumnsSet}
    /\ tpc = "start"
    /\ tplan = NoPlan
    /\ twrites = <<>>
    /\ commits = [started |-> <<>>, running |-> 0]
    /\ conversion = <<>>
    /\ hierarchy = <<>>
    /\ descriptor = <<>>
    /\ paging = <<>>
    /\ relate = <<>>
    /\ dataPolicies = <<>>
    /\ keying = <<>>
    /\ resync = <<>>
    /\ recordCache = <<>>
    /\ expansion = <<>>
    /\ payloads = <<>>

SpecCommit == InitCommit /\ [][NextTable]_vars

(***************************************************************************)
(* Properties of column planning                                           *)
(***************************************************************************)
ExistingColumns == TableGet(rtable).columns

NewColumns == ExpandTable(desired.name, desired.columns)

\* the desired column exists on the table under its own name and is not
\* reported as a rename of another existing column
ExistsOnTable(col) ==
    /\ col.name \in DOMAIN ExistingColumns
    /\ ~(col.id # col.name /\ col.id \in DOMAIN ExistingColumns)

TypeDiffers(col) ==
    \/ col.type # ExistingColumns[col.name].type
    \/ col.reference_table # ExistingColumns[col.name].reference_table

NamesBothValues(action, col) ==
    \E k \in {"type", "reference_table"} :
        action.description
            = <<"differs", k, ExistingColumns[col.name][k], col[k]>>

\* C19: for every desired column that exists on the table, if its desired
\* type or reference_table differs from the existing one, the plan holds an
\* error action for that column that names both values, whether or not any
\* other compared attribute differs.
C19_TypeMismatchIsError ==
    tpc = "planned" =>
        \A id \in DOMAIN NewColumns :
            (ExistsOnTable(NewColumns[id]) /\ TypeDiffers(NewColumns[id])) =>
                /\ id \in DOMAIN tplan
                /\ tplan[id].type = "error"
                /\ NamesBothValues(tplan[id], NewColumns[id])

\* the part of C19 about updates: a desired column whose type or
\* reference_table differs is never planned as an update
C19_NoUpdateOnMismatch ==
    tpc = "planned" =>
        \A id \in DOMAIN NewColumns :
            (ExistsOnTable(NewColumns[id]) /\ TypeDiffers(NewColumns[id])) =>
                ~(id \in DOMAIN tplan /\ tplan[id].type = "update")

\* a type mismatch that is reported: some other attribute differs as well
C19_ReportedMismatch ==
    /\ tpc = "planned"
    /\ \E id \in DOMAIN NewColumns :
        /\ ExistsOnTable(NewColumns[id]) /\ TypeDiffers(NewColumns[id])
        /\ id \in DOMAIN tplan
        /\ tplan[id].type = "error"
        /\ NamesBothValues(tplan[id], NewColumns[id])

(***************************************************************************)
(* Properties of table sync with commit                                    *)
(***************************************************************************)
\* C18: if the plan of the sync call holds an action of type error, the
\* call throws and has issued no HTTP write, whether the table already
\* existed or is created by this call.
C18_ErrorsThrowBeforeAnyWrite ==
    (tpc \notin {"second", "second threw parent mismatch"}
     /\ HasErrors(tplan.columns)) =>
        /\ tpc \in {"commitColumns", "threw errors"}
        /\ twrites = <<>>
    /\ commits = [started |-> <<>>, running |-> 0]
    /\ conversion = <<>>
    /\ hierarchy = <<>>
    /\ descriptor = <<>>
    /\ paging = <<>>
    /\ relate = <<>>
    /\ dataPolicies = <<>>
    /\ keying = <<>>
    /\ resync = <<>>
    /\ recordCache = <<>>
    /\ expansion = <<>>
    /\ payloads = <<>>

\* what does hold: the only write that can precede the throw is the POST
\* that creates the table
C18_OnlyTableCreateBeforeThrow ==
    tpc = "threw errors" => twrites \in {<<>>, <<"POST sys_db_object">>}

\* the call threw on a plan with errors for a table that already existed
C18_ThrewOnExistingTable ==
    tpc = "threw errors" /\ twrites = <<>>

\* C20: after sync(desired, commit=true) has returned and every write was
\* applied, a second sync(desired) returns a plan without any create,
\* update or delete action.
C20_SecondSyncPlansNothing ==
    tpc = "second" =>
        /\ ~tplan.table
        /\ \A k \in DOMAIN tplan.columns :
              tplan.columns[k].type \notin {"create", "update", "delete"}

\* a second sync that does plan nothing
C20_SettledSecondSync ==
    /\ tpc = "second"
    /\ twrites # <<>>
    /\ tplan.columns = NoColumns

\* a column this sync created is planned as an update by the second sync
C20_CreatedColumnReplanned ==
    /\ tpc = "second"
    /\ twrites = <<"POST sys_dictionary">>
    /\ "a" \in DOMAIN tplan.columns
    /\ tplan.columns["a"].type = "update"

\* C21: column planning holds a delete action for an existing column if and
\* only if the name of the column starts with u_, no desired column has
\* that name, the column is defined on the synced table itself and it was
\* created by the user of the client.
C21_DeleteExactlyOwnUnwantedColumns ==
    tpc = "planned" =>
        \A n \in DOMAIN rtable.columns :
            (n \in DOMAIN tplan /\ tplan[n].type = "delete")
            <=> /\ n \in {"u_a", "u_b"}
                /\ \A id \in DOMAIN NewColumns : NewColumns[id].name # n
                /\ rtable.columns[n].name = desired.name
                /\ rtable.columns[n].sys_created_by = Username

\* a delete is planned next to a column that another user created and that
\* is kept
C21_Witness ==
    /\ tpc = "planned"
    /\ \E n \in DOMAIN tplan : tplan[n].type = "delete"
    /\ \E n \in DOMAIN rtable.columns :
          /\ rtable.columns[n].sys_created_by = OtherUser
          /\ n \notin DOMAIN tplan

(***************************************************************************)
(* Properties of commitAll                                                 *)
(***************************************************************************)
PositionIn(seq, k) == CHOOSE i \in 1 .. Len(seq) : seq[i] = k

\* the table is created by the first commit, and the actions of the
\* desired columns are committed in the iteration order of the columns
CommitsInOrder ==
    \A i, j \in 1 .. Len(commits.started) :
        i < j =>
            /\ commits.started[j] # "table"
            /\ (InSeqOf(desired.order, commits.started[i])
                /\ InSeqOf(desired.order, commits.started[j])) =>
                  PositionIn(desired.order, commits.started[i])
                  < PositionIn(desired.order, commits.started[j])

\* C22: commitAll runs the pending actions one at a time, each commit
\* settling before the next is called, the table creation first when there
\* is one and then the column actions in the iteration order of the
\* desired columns.
C22_CommitsOneAtATimeInOrder ==
    commits.running <= 1 /\ CommitsInOrder

\* a new table whose two columns are created b first, as desired
C22_Witness ==
    /\ desired.order = <<"b", "a">>
    /\ commits.started = <<"table", "b", "a">>
    /\ tpc = "done"

(***************************************************************************)
(* Part 5.  CSchema.convertJS and CSchema.convertSN on every column type   *)
(*                                                                         *)
(* A JavaScript value is a type tag t and a text v: for a string the       *)
(* string, for a boolean "true" or "false", for a number what String(n)    *)
(* gives ("NaN" for NaN), for a Date what snowDate gives ("Invalid Date"   *)
(* for an invalid one).  A wire value is a string.  Parsing, rounding and  *)
(* the regular expressions are given by what they return on the strings    *)
(* of the model.  Keys with a dot (fields of a referenced row) are not     *)
(* modelled.                                                               *)
(***************************************************************************)
Num(x) == [t |-> "number", v |-> x]

DateOf(x) == [t |-> "date", v |-> x]

Null == [t |-> "null", v |-> ""]

Undefined == [t |-> "undefined", v |-> ""]

Guid == "0123456789abcdef0123456789abcdef"

UpperGuid == "0123456789ABCDEF0123456789ABCDEF"

ShortGuid == "0123456789abcdef0123456789abcde"

\* the strings of the model made of the characters a-f and 0-9 only
LowerHexStrings == {Guid, ShortGuid, "abc", "42", "0", "1"}

\* isGUID: /^[a-f0-9]{32}$/.test(str) on the text of the value
IsGUID(val) ==
    val.t \in {"string", "number"} /\ Len(val.v) = 32
    /\ val.v \in LowerHexStrings

\* parseFloat(str) as String(n)
ParseFloat(str) ==
    CASE str \in {"42", "042", "42.0"} -> "42"
      [] str = "-7" -> "-7"
      [] str \in {"0", "0.0"} -> "0"
      [] str = "1" -> "1"
      [] str \in {"1.5", "1.50"} -> "1.5"
      [] str = "1.25" -> "1.25"
      [] str = "1.239" -> "1.239"
      [] OTHER -> "NaN"

\* parseInt(str, 10) as String(n): the digits before the first other
\* character
ParseInt(str) ==
    CASE str \in {"42", "042", "42.0"} -> "42"
      [] str = "-7" -> "-7"
      [] str \in {"0", "0.0"} -> "0"
      [] str \in {"1", "1.5", "1.50", "1.25", "1.239"} -> "1"
      [] OTHER -> "NaN"

\* round(n, places) of util.js: Math.round(n * 10^places) / 10^places
Round(n, places) ==
    IF n = "1.239" /\ places = 2 THEN "1.24" ELSE n

\* Math.round(n)
MathRound(n) ==
    CASE n = "1.5" -> "2"
      [] n \in {"1.25", "1.239", "1.24"} -> "1"
      [] OTHER -> n

\* the date and time of the model in the forms a wire row can hold it
UtcDate == "2020-01-02 03:04:05"

DisplayDate == "02-01-2020 03:04:05"

IsoDate == "2020-01-02T03:04:05.000Z"

\* a column of the schema: its type, its max_length (0 when it has none)
\* and whether it has a choice list
Column(type, maxLength, choiceList) ==
    [type |-> type, max_length |-> maxLength, choice_list |-> choiceList]

Throws == [ok |-> FALSE, keep |-> FALSE, v |-> Undefined]

Value(val) == [ok |-> TRUE, keep |-> TRUE, v |-> val]

Skipped == [ok |-> TRUE, keep |-> FALSE, v |-> Undefined]

\* convertJS on the wire value str of a column s: the field is skipped,
\* converted, or the conversion throws
ConvertJSValue(s, str) ==
    IF str = "" THEN Skipped
    ELSE CASE s.type = "boolean" ->
                IF str = "true" THEN Value(Bool(TRUE))
                ELSE IF str = "false" THEN Value(Bool(FALSE))
                ELSE Throws
           [] s.type = "integer" ->
                IF ParseInt(str) # "NaN" THEN Value(Num(ParseInt(str)))
                ELSE IF ~s.choice_list THEN Throws
                ELSE Value(Str(str))
           [] s.type \in {"float", "decimal"} ->
                IF ParseFloat(str) = "NaN" THEN Throws
                ELSE Value(Num(ParseFloat(str)))
           [] s.type = "glide_date_time" ->
                IF str \in {UtcDate, DisplayDate} THEN Value(DateOf(UtcDate))
                ELSE Throws
           [] OTHER -> Value(Str(str))

TypeOfIsString(val) == val.t = "string"

\* the text of a string cut to the max_length of the column
Truncated(s, val) ==
    IF val.t = "string" /\ s.max_length # 0 /\ Len(val.v) > s.max_length
    THEN IF val.v = "abc" /\ s.max_length = 2 THEN Str("ab") ELSE val
    ELSE val

\* convertSN on the value val of a column s, up to the sanity check: the
\* value to send, or Throws
ConvertSNUnchecked(s, val) ==
    IF s.type = "boolean"
    THEN LET b == CASE val.t = "string" -> Bool(val.v = "true")
                    [] val.t = "number" -> Bool(val.v = "1")
                    [] val.t = "null" -> Bool(FALSE)
                    [] OTHER -> val
         IN  IF b.t # "boolean" THEN Throws
             ELSE Value(Str(IF b.v = "true" THEN "1" ELSE "0"))
    ELSE IF val.t \in {"null", "undefined"} THEN Value(Str(""))
    ELSE CASE s.type \in {"decimal", "float"} ->
                LET n == IF val.t = "string" THEN Num(ParseFloat(val.v))
                         ELSE val
                IN  IF n.t # "number" \/ n.v = "NaN" THEN Throws
                    ELSE Value(Str(Round(n.v, IF s.type = "float" THEN 7
                                              ELSE 2)))
           [] s.type \in {"integer", "long"} ->
                LET n == IF val.t = "string" THEN Num(ParseInt(val.v))
                         ELSE val
                IN  IF n.t # "number" \/ n.v = "NaN" THEN Throws
                    ELSE Value(Str(MathRound(n.v)))
           [] s.type = "string" ->
                Value(Truncated(s, IF val.t \in {"boolean", "number"}
                                   THEN Str(val.v) ELSE val))
           [] s.type = "glide_date_time" ->
                LET d == IF val.t = "string" /\ val.v = IsoDate
                         THEN DateOf(UtcDate) ELSE val
                IN  IF d.t # "date" THEN Throws
                    ELSE IF d.v = "Invalid Date" THEN Value(Null)
                    ELSE Value(Str(d.v))
           [] s.type = "reference" ->
                IF (val.t = "string" /\ val.v = "")
                   \/ (val.t = "number" /\ val.v \in {"0", "NaN"})
                   \/ (val.t = "boolean" /\ val.v = "false")
                THEN Value(Str(""))
                ELSE IF ~IsGUID(val) THEN Throws
                ELSE Value(val)
           [] OTHER -> Value(val)

\* convertSN on the value val of a column s: every value it returns has
\* passed `typeof v !== "string"`
ConvertSNValue(s, val) ==
    LET r == ConvertSNUnchecked(s, val)
    IN  IF r.ok /\ ~TypeOfIsString(r.v) THEN Throws ELSE r

\* convertJS(tableName, row): the fields of the row that the schema has
\* and that hold a value, converted
ConvertJSRow(schema, row) ==
    LET ks == DOMAIN row \cap DOMAIN schema
    IN  [ok |-> \A k \in ks : ConvertJSValue(schema[k], row[k]).ok,
         row |-> [k \in {c \in ks : ConvertJSValue(schema[c], row[c]).keep}
                    |-> ConvertJSValue(schema[k], row[k]).v]]

\* convertSN(tableName, obj): the columns of the schema that obj has,
\* converted; the values of the row are the strings to send
ConvertSNRow(schema, obj) ==
    LET ks == DOMAIN schema \cap DOMAIN obj
    IN  [ok |-> \A k \in ks : ConvertSNValue(schema[k], obj[k]).ok,
         row |-> [k \in ks |-> ConvertSNValue(schema[k], obj[k]).v]]

(***************************************************************************)
(* The round trip: a wire row of a table with one column of each type is   *)
(* converted by convertJS and the result by convertSN.                     *)
(***************************************************************************)
WireSchema ==
    [b |-> Column("boolean", 0, FALSE),
     i |-> Column("integer", 40, FALSE),
     l |-> Column("long", 40, FALSE),
     f |-> Column("float", 40, FALSE),
     d |-> Column("decimal", 40, FALSE),
     t |-> Column("glide_date_time", 0, FALSE),
     s |-> Column("string", 40, FALSE),
     r |-> Column("reference", 32, FALSE)]

\* the values a well-formed wire row can hold in column k
WireValues(k) ==
    {""} \cup CASE k = "b" -> {"true", "false"}
                [] k = "i" -> {"42", "-7"}
                [] k = "l" -> {"42"}
                [] k = "f" -> {"1.5"}
                [] k = "d" -> {"1.25", "1.50"}
                [] k = "t" -> {UtcDate}
                [] k = "s" -> {"abc"}
                [] k = "r" -> {Guid}

\* column k absent, or holding one of its values
WireField(k) == {EmptyRow} \cup {c :> v : c \in {k}, v \in WireValues(k)}

WireRows ==
    {b @@ i @@ l @@ f @@ d @@ t @@ s @@ r :
        b \in WireField("b"), i \in WireField("i"), l \in WireField("l"),
        f \in WireField("f"), d \in WireField("d"), t \in WireField("t"),
        s \in WireField("s"), r \in WireField("r")}

InitRoundTrip ==
    /\ readOnly = FALSE
    /\ calls = <<>>
    /\ readBucket = 0
    /\ writeBucket = 0
    /\ cache = <<>>
    /\ resolved = <<>>
    /\ getters = <<>>
    /\ now = 0
    /\ fetches = 0
    /\ run = <<>>
    /\ mpc = "none"
    /\ pending = <<>>
    /\ remote = <<>>
    /\ policy = <<>>
    /\ exec = <<>>
    /\ sent = {}
    /\ result = <<>>
    /\ desired = <<>>
    /\ rtable = <<>>
    /\ tpc = "none"
    /\ tplan = <<>>
    /\ twrites = <<>>
    /\ commits = [started |-> <<>>, running |-> 0]
    /\ \E row \in WireRows :
            conversion = [pc |-> "wire", schema |-> WireSchema,
                          wire |-> row, js |-> EmptyRow, sn |-> EmptyRow]
    /\ hierarchy = <<>>
    /\ descriptor = <<>>
    /\ paging = <<>>
    /\ relate = <<>>
    /\ dataPolicies = <<>>
    /\ keying = <<>>
    /\ resync = <<>>
    /\ recordCache = <<>>
    /\ expansion = <<>>
    /\ payloads = <<>>

\* convertJS(tableName, row) on the wire row
Decode ==
    /\ conversion.pc = "wire"
    /\ LET r == ConvertJSRow(conversion.schema, conversion.wire)
       IN  conversion' = IF r.ok
                         THEN [conversion EXCEPT !.pc = "js", !.js = r.row]
                         ELSE [conversion EXCEPT !.pc = "threw"]
    /\ UNCHANGED notConvVars

\* convertSN(tableName, obj) on the converted row
Encode ==
    /\ conversion.pc = "js"
    /\ LET r == ConvertSNRow(conversion.schema, conversion.js)
       IN  conversion' = IF r.ok
                         THEN [conversion EXCEPT !.pc = "sn",
                                                 !.sn = [k \in DOMAIN r.row
                                                           |-> r.row[k].v]]
                         ELSE [conversion EXCEPT !.pc = "threw"]
    /\ UNCHANGED notConvVars

NextRoundTrip == Decode \/ Encode

SpecRoundTrip == InitRoundTrip /\ [][NextRoundTrip]_vars

(***************************************************************************)
(* convertSN on one value: an object with one field, of a column of any    *)
(* type, holding any JavaScript value.                                     *)
(***************************************************************************)
JSValues ==
    {Str(x) : x \in {"", "abc", "true", "42", "1.5", "1.239", Guid,
                     UpperGuid, ShortGuid, IsoDate, UtcDate}}
    \cup {Num(x) : x \in {"0", "1", "42", "1.5", "NaN"}}
    \cup {Bool(TRUE), Bool(FALSE), Null, Undefined, Obj,
          DateOf(UtcDate), DateOf("Invalid Date")}

Columns ==
    {Column(type, 40, FALSE) :
        type \in {"boolean", "integer", "long", "float", "decimal",
                  "glide_date_time", "string", "reference", "GUID"}}
    \cup {Column("string", 2, FALSE)}

InitEncode ==
    /\ readOnly = FALSE
    /\ calls = <<>>
    /\ readBucket = 0
    /\ writeBucket = 0
    /\ cache = <<>>
    /\ resolved = <<>>
    /\ getters = <<>>
    /\ now = 0
    /\ fetches = 0
    /\ run = <<>>
    /\ mpc = "none"
    /\ pending = <<>>
    /\ remote = <<>>
    /\ policy = <<>>
    /\ exec = <<>>
    /\ sent = {}
    /\ result = <<>>
    /\ desired = <<>>
    /\ rtable = <<>>
    /\ tpc = "none"
    /\ tplan = <<>>
    /\ twrites = <<>>
    /\ commits = [started |-> <<>>, running |-> 0]
    /\ \E s \in Columns, val \in JSValues :
            conversion = [pc |-> "js", schema |-> [c |-> s],
                          js |-> [c |-> val], sn |-> EmptyRow]
    /\ hierarchy = <<>>
    /\ descriptor = <<>>
    /\ paging = <<>>
    /\ relate = <<>>
    /\ dataPolicies = <<>>
    /\ keying = <<>>
    /\ resync = <<>>
    /\ recordCache = <<>>
    /\ expansion = <<>>
    /\ payloads = <<>>

\* convertSN(tableName, obj) on the object: the row it returns keeps the
\* values as convertSN left them
EncodeValue ==
    /\ conversion.pc = "js"
    /\ LET r == ConvertSNRow(conversion.schema, conversion.js)
       IN  conversion' = IF r.ok
                         THEN [conversion EXCEPT !.pc = "sn", !.sn = r.row]
                         ELSE [conversion EXCEPT !.pc = "threw"]
    /\ UNCHANGED notConvVars

NextEncode == EncodeValue

SpecEncode == InitEncode /\ [][NextEncode]_vars

(***************************************************************************)
(* Properties of the conversions                                           *)
(***************************************************************************)
IsNumeric(type) == type \in {"integer", "long", "float", "decimal"}

\* a wire value up to the normalisation of numeric strings
Normalised(s, str) == IF IsNumeric(s.type) THEN ParseFloat(str) ELSE str

\* C23: for every well-formed wire row R, convertSN(S, convertJS(S, R)) is
\* R up to the normalisation of numeric strings: the same fields, each with
\* the same value, for columns of every type and for fields that hold the
\* empty string.
C23_RoundTripIsIdentity ==
    /\ conversion.pc # "threw"
    /\ conversion.pc = "sn" =>
        /\ DOMAIN conversion.sn = DOMAIN conversion.wire
        /\ \A k \in DOMAIN conversion.wire \cap DOMAIN conversion.sn :
              Normalised(conversion.schema[k], conversion.sn[k])
              = Normalised(conversion.schema[k], conversion.wire[k])

\* what does hold: the round trip never throws, it returns the fields of R
\* that are not empty, and each of them but a boolean has its value
C23_NonEmptyFieldsButBooleansKept ==
    /\ conversion.pc # "threw"
    /\ conversion.pc = "sn" =>
        /\ DOMAIN conversion.sn
           = {k \in DOMAIN conversion.wire : conversion.wire[k] # ""}
        /\ \A k \in DOMAIN conversion.sn :
              conversion.schema[k].type # "boolean" =>
                  Normalised(conversion.schema[k], conversion.sn[k])
                  = Normalised(conversion.schema[k], conversion.wire[k])

\* a row of eight values other than a boolean that the round trip returns
\* with "1.50" written as "1.5"
C23_NormalisedRoundTrip ==
    /\ conversion.pc = "sn"
    /\ DOMAIN conversion.sn = DOMAIN conversion.wire
    /\ "d" \in DOMAIN conversion.sn
    /\ conversion.wire["d"] = "1.50"
    /\ conversion.sn["d"] = "1.5"

\* C24: every value of a row that convertSN returns is a string; a boolean
\* column holds "1" or "0", and "0" for null.
C24_EveryValueIsAString ==
    conversion.pc = "sn" /\ "c" \in DOMAIN conversion.js =>
        /\ conversion.sn["c"].t = "string"
        /\ conversion.schema["c"].type = "boolean" =>
            /\ conversion.sn["c"].v \in {"1", "0"}
            /\ conversion.js["c"] = Null => conversion.sn["c"].v = "0"

\* null is sent to a boolean column as "0"
C24_Witness ==
    /\ conversion.pc = "sn"
    /\ "c" \in DOMAIN conversion.js
    /\ conversion.schema["c"].type = "boolean"
    /\ conversion.js["c"] = Null
    /\ conversion.sn["c"] = Str("0")

\* C25: on a reference column convertSN sends "" for "", null and
\* undefined, sends a GUID of 32 lowercase hexadecimal characters
\* unchanged, and throws for every other value.
C25_ReferenceGuidOrEmptyOrThrow ==
    (conversion.pc \in {"sn", "threw"} /\ "c" \in DOMAIN conversion.js
     /\ conversion.schema["c"].type = "reference") =>
        LET val == conversion.js["c"]
        IN  IF val \in {Str(""), Null, Undefined}
            THEN conversion.pc = "sn" /\ conversion.sn["c"] = Str("")
            ELSE IF val = Str(Guid)
            THEN conversion.pc = "sn" /\ conversion.sn["c"] = val
            ELSE conversion.pc = "threw"

\* what does hold: the values that are not sent as "" or unchanged and do
\* not throw are the numbers 0 and NaN and false, sent as ""
C25_FalsyValuesDisconnect ==
    (conversion.pc \in {"sn", "threw"} /\ "c" \in DOMAIN conversion.js
     /\ conversion.schema["c"].type = "reference") =>
        LET val == conversion.js["c"]
        IN  IF val \in {Str(""), Null, Undefined, Num("0"), Num("NaN"),
                        Bool(FALSE)}
            THEN conversion.pc = "sn" /\ conversion.sn["c"] = Str("")
            ELSE IF val = Str(Guid)
            THEN conversion.pc = "sn" /\ conversion.sn["c"] = val
            ELSE conversion.pc = "threw"

\* a GUID in upper case is refused
C25_UpperCaseRefused ==
    /\ conversion.pc = "threw"
    /\ conversion.schema["c"].type = "reference"
    /\ conversion.js["c"] = Str(UpperGuid)

(***************************************************************************)
(* Part 6.  CTable.get over a hierarchy of tables                          *)
(*                                                                         *)
(* hierarchy lists what getRaw reads: the table asked for, then the table  *)
(* its super_class names, and so on.  Each table has the rows of           *)
(* sys_dictionary with its name, in the order the remote lists them; a row *)
(* is an element (the column name, "" when it is missing) and a label.     *)
(***************************************************************************)
\* longest list of sys_dictionary rows of one table
MaxColumnRows == 2

HierarchyNames == <<"u_t", "u_parent", "task">>

DictionaryRows(tableName) ==
    {[element |-> e, column_label |-> "label in " \o tableName] :
        e \in {"u_a", "sys_id", ""}}

StartsWithSys(id) == id \in {"sys_id"}

IndexOfName(entries, id) ==
    IF \E i \in 1 .. Len(entries) : entries[i].name = id
    THEN CHOOSE i \in 1 .. Len(entries) : entries[i].name = id
    ELSE 0

\* obj[id] = entry on an object kept as the list of its properties in
\* insertion order
Put(entries, id, entry) ==
    IF IndexOfName(entries, id) = 0 THEN Append(entries, entry)
    ELSE [entries EXCEPT ![IndexOfName(entries, id)] = entry]

\* getRaw: columns[id] = column for every row of the table
RECURSIVE RawColumns(_, _, _)
RawColumns(rows, i, acc) ==
    IF i > Len(rows) THEN acc
    ELSE RawColumns(rows, i + 1,
                    Put(acc, rows[i].element,
                        [name |-> rows[i].element,
                         column_label |-> rows[i].column_label]))

\* CTable.get: the columns of one table of the hierarchy added to the
\* columns found so far
RECURSIVE AddColumns(_, _, _, _)
AddColumns(columns, raws, tableName, i) ==
    IF i > Len(raws) THEN columns
    ELSE LET id == raws[i].name
             at == IndexOfName(columns, id)
         IN  AddColumns(
                IF at # 0
                THEN [columns EXCEPT ![at] =
                        [@ EXCEPT !.overridden = @ \/ ~StartsWithSys(id),
                                  !.label = raws[i].column_label,
                                  !.table = tableName]]
                ELSE Put(columns, id,
                         [name |-> id, label |-> raws[i].column_label,
                          table |-> tableName, overridden |-> FALSE]),
                raws, tableName, i + 1)

\* a parents list that names the direct parent only
PushDirectParent(parents, i, tableName) ==
    IF i = 2 THEN Append(parents, tableName) ELSE parents

\* table.parents.push(rawTable.name) for every table but the first
PushParent(parents, i, tableName) ==
    IF i > 1 THEN Append(parents, tableName) ELSE parents

RECURSIVE GetFrom(_, _, _)
GetFrom(tables, i, table) ==
    IF i > Len(tables) THEN table
    ELSE GetFrom(tables, i + 1,
            [table EXCEPT
                !.parent = IF i > 1 /\ @ = Undef THEN tables[i].name ELSE @,
                !.parents = PushParent(@, i, tables[i].name),
                !.columns = AddColumns(@, RawColumns(tables[i].rows, 1, <<>>),
                                       tables[i].name, 1)])

HasNamelessColumn(tables) ==
    \E i \in 1 .. Len(tables) :
        \E j \in 1 .. Len(tables[i].rows) : tables[i].rows[j].element = ""

\* CTable.get(name) for the first table of the hierarchy
GetHierarchy(tables) ==
    IF HasNamelessColumn(tables) THEN [thrown |-> TRUE]
    ELSE GetFrom(tables, 1,
                 [thrown |-> FALSE, name |-> tables[1].name, parent |-> Undef,
                  parents |-> <<>>, columns |-> <<>>])

\* the remote tables with the given name: any list of dictionary rows
TablesNamed(tableName) ==
    {[name |-> tableName, rows |-> rows] :
        rows \in UNION {[1 .. n -> DictionaryRows(tableName)] : n \in 0 .. MaxColumnRows}}

RECURSIVE Hierarchies(_)
Hierarchies(depth) ==
    IF depth = 0 THEN {<<>>}
    ELSE {Append(h, t) : h \in Hierarchies(depth - 1),
                         t \in TablesNamed(HierarchyNames[depth])}

InitGet ==
    /\ readOnly = FALSE
    /\ calls = <<>>
    /\ readBucket = 0
    /\ writeBucket = 0
    /\ cache = <<>>
    /\ resolved = <<>>
    /\ getters = <<>>
    /\ now = 0
    /\ fetches = 0
    /\ run = <<>>
    /\ mpc = "none"
    /\ pending = <<>>
    /\ remote = <<>>
    /\ policy = <<>>
    /\ exec = <<>>
    /\ sent = {}
    /\ result = <<>>
    /\ desired = <<>>
    /\ rtable = <<>>
    /\ tpc = "none"
    /\ tplan = <<>>
    /\ twrites = <<>>
    /\ commits = [started |-> <<>>, running |-> 0]
    /\ conversion = <<>>
    /\ hierarchy \in UNION {Hierarchies(depth) : depth \in 1 .. Len(HierarchyNames)}
    /\ descriptor = <<>>
    /\ paging = <<>>
    /\ relate = <<>>
    /\ dataPolicies = <<>>
    /\ keying = <<>>
    /\ resync = <<>>
    /\ recordCache = <<>>
    /\ expansion = <<>>
    /\ payloads = <<>>

\* table.get(name)
GetCall ==
    /\ descriptor = <<>>
    /\ paging = <<>>
    /\ relate = <<>>
    /\ dataPolicies = <<>>
    /\ keying = <<>>
    /\ resync = <<>>
    /\ recordCache = <<>>
    /\ expansion = <<>>
    /\ payloads = <<>>
    /\ descriptor' = GetHierarchy(hierarchy)
    /\ UNCHANGED hierarchy
    /\ UNCHANGED notGetVars

NextGet == GetCall

SpecGet == InitGet /\ [][NextGet]_vars

(***************************************************************************)
(* Properties of CTable.get                                                *)
(***************************************************************************)
GetReturned(d) == d # <<>> /\ ~d.thrown

\* C26: in every descriptor get(T) returns, the table of each column is T
\* or a member of the parents list, and no two columns have the same name.
C26_ColumnsOfAncestorsUniqueNames ==
    GetReturned(descriptor) =>
        /\ \A i \in 1 .. Len(descriptor.columns) :
              \/ descriptor.columns[i].table = descriptor.name
              \/ InSeqOf(descriptor.parents, descriptor.columns[i].table)
        /\ \A i, j \in 1 .. Len(descriptor.columns) :
              descriptor.columns[i].name = descriptor.columns[j].name => i = j

\* a column defined on the table and on its parent's parent is listed once,
\* as a column of the last
C26_Witness ==
    /\ GetReturned(descriptor)
    /\ Len(hierarchy) = 3
    /\ \E i \in 1 .. Len(descriptor.columns) :
          /\ descriptor.columns[i].overridden
          /\ descriptor.columns[i].table = "task"
    /\ \E j \in 1 .. Len(hierarchy[1].rows) : hierarchy[1].rows[j].element = "u_a"

(***************************************************************************)
(* Part 7.  ServiceNowClient.getRecords: the count limit and the pages     *)
(*                                                                         *)
(* The call is made without opts.cache, so it always counts the rows of    *)
(* the query first.  Every page is one GET through do().                   *)
(***************************************************************************)
RecordLimit == 100000

DefaultPageSize == 500

\* what the stats API reports for the query
RemoteCounts == {0, 1, 499, 99999, 100000, 100001, 200000}

\* opts.maxRecords and opts.pageSize; 0 stands for an option that is not
\* given, which the code cannot tell from 0 (both are falsy)
MaxRecordsOptions == {0, 1000}

PageSizeOptions == {0, 1000, 50000}

Min(a, b) == IF a < b THEN a ELSE b

\* Math.ceil(a / b); NaN (which ends the page loop at once) for 0 / 0
Ceil(a, b) == IF b = 0 THEN 0 ELSE (a + b - 1) \div b

\* a limit that refuses the hundred-thousandth row too
AtLimit(count) == count >= RecordLimit

\* if (count > 100000) throw
OverLimit(count) == count > RecordLimit

PagePlan(count, optMaxRecords, optPageSize) ==
    LET maxRecords == IF optMaxRecords # 0
                      THEN Min(count, optMaxRecords) ELSE count
        pageSize == Min(maxRecords,
                        IF optPageSize # 0
                        THEN optPageSize ELSE DefaultPageSize)
    IN  [maxRecords |-> maxRecords, pageSize |-> pageSize,
         totalPages |-> Ceil(maxRecords, pageSize)]

InitRecords ==
    /\ readOnly = FALSE
    /\ calls = <<>>
    /\ readBucket = 0
    /\ writeBucket = 0
    /\ cache = <<>>
    /\ resolved = <<>>
    /\ getters = <<>>
    /\ now = 0
    /\ fetches = 0
    /\ run = <<>>
    /\ mpc = "none"
    /\ pending = <<>>
    /\ remote = <<>>
    /\ policy = <<>>
    /\ exec = <<>>
    /\ sent = {}
    /\ result = <<>>
    /\ desired = <<>>
    /\ rtable = <<>>
    /\ tpc = "none"
    /\ tplan = <<>>
    /\ twrites = <<>>
    /\ commits = [started |-> <<>>, running |-> 0]
    /\ conversion = <<>>
    /\ hierarchy = <<>>
    /\ descriptor = <<>>
    /\ paging = [pc |-> "idle", count |-> 0, pageSize |-> 0, totalPages |-> 0,
                 requests |-> 0]
    /\ relate = <<>>
    /\ dataPolicies = <<>>
    /\ keying = <<>>
    /\ resync = <<>>
    /\ recordCache = [requested |-> FALSE, keyed |-> FALSE, entry |-> "none",
                      rows |-> 0, updatedAfter |-> 0, updatedBefore |-> 0,
                      reads |-> 0, writes |-> 0]
    /\ expansion = <<>>
    /\ payloads = <<>>

\* getRecords up to the page loop: count, refuse or plan the pages
GetRecordsCount(count, optMaxRecords, optPageSize) ==
    /\ paging.pc = "idle"
    /\ paging' =
         IF OverLimit(count)
         THEN [paging EXCEPT !.pc = "threw", !.count = count]
         ELSE LET plan == PagePlan(count, optMaxRecords, optPageSize)
              IN  [pc |-> "paging", count |-> count, pageSize |-> plan.pageSize,
                   totalPages |-> plan.totalPages, requests |-> 0]
    /\ UNCHANGED recordCache
    /\ UNCHANGED notRecordsVars

\* one page: GET /v2/table/T with sysparm_limit and sysparm_offset
FetchPage ==
    /\ paging.pc = "paging"
    /\ paging.requests < paging.totalPages
    /\ paging' = [paging EXCEPT !.requests = @ + 1]
    /\ UNCHANGED recordCache
    /\ UNCHANGED notRecordsVars

\* recordCache.put(cacheKey, data) when caching was asked for, the key was
\* made and rows were fetched
CachePut(rc, p) ==
    IF rc.requested /\ rc.keyed /\ p.totalPages > 0
    THEN [rc EXCEPT !.entry = "fresh", !.rows = p.count, !.writes = @ + 1]
    ELSE rc

\* every page has arrived: join the parts, write the cache and return
GetRecordsReturn ==
    /\ paging.pc = "paging"
    /\ paging.requests = paging.totalPages
    /\ paging' = [paging EXCEPT !.pc = "done"]
    /\ recordCache' = CachePut(recordCache, paging)
    /\ UNCHANGED notRecordsVars

NextRecords ==
    \/ \E count \in RemoteCounts, optMaxRecords \in MaxRecordsOptions,
          optPageSize \in PageSizeOptions :
            GetRecordsCount(count, optMaxRecords, optPageSize)
    \/ FetchPage
    \/ GetRecordsReturn

SpecRecords == InitRecords /\ [][NextRecords]_vars

(***************************************************************************)
(* Properties of getRecords                                                *)
(***************************************************************************)
\* C27: with a count of exactly 100000 getRecords goes on to fetch pages
\* and does not fail; with 100001 or more it fails and no page request
\* has been issued.
C27_LimitIsInclusive ==
    paging.pc # "idle" =>
        /\ paging.count >= RecordLimit + 1 =>
              paging.pc = "threw" /\ paging.requests = 0
        /\ paging.count = RecordLimit =>
              /\ paging.pc \in {"paging", "done"}
              /\ paging.totalPages > 0
              /\ paging.pc = "done" => paging.requests = paging.totalPages

\* all 200 default pages of a query with exactly 100000 rows were fetched
C27_Witness ==
    /\ paging.pc = "done"
    /\ paging.count = RecordLimit
    /\ paging.requests = 200

(***************************************************************************)
(* Part 8.  CRelate.rows: relationship types first, then the writes        *)
(*                                                                         *)
(* relationships is the list of the properties of the relationships        *)
(* object, a column name and its "parent::child" descriptor string.  Each  *)
(* column costs one query of cmdb_rel_type; the writes are the creates and *)
(* deletes of cmdb_rel_ci that the diff of each column asks for.           *)
(***************************************************************************)
\* longest list of rows given to rows()
MaxRelateRows == 2

RelateColumns == <<"u_host", "u_cluster">>

\* descriptor strings: two that cmdb_rel_type has once, one it does not
\* have, one it has twice, a missing one and one without "::"
Relationships ==
    {"Managed by::Manages", "Runs on::Runs", "Uses::Used by",
     "Hosts::Hosted on", "", "Manages"}

\* /^(.+)::(.+)$/
HasRelationshipFormat(relationship) ==
    relationship \in {"Managed by::Manages", "Runs on::Runs", "Uses::Used by",
                      "Hosts::Hosted on"}

\* the cmdb_rel_type records the query of a descriptor string returns
RelTypeRecords(relationship) ==
    CASE relationship = "Managed by::Manages" -> <<[sys_id |-> "t1"]>>
      [] relationship = "Runs on::Runs" -> <<[sys_id |-> "t2"]>>
      [] relationship = "Hosts::Hosted on" -> <<[sys_id |-> "t3"], [sys_id |-> "t4"]>>
      [] OTHER -> <<>>

RelationshipLists ==
    UNION {[1 .. n -> Relationships] : n \in 0 .. Len(RelateColumns)}

RelateRowKinds ==
    [sys_id : {"ci1", "ci2", ""}, u_host : {"", "h1"}, u_cluster : {"k1"}]

RelateRowLists == UNION {[1 .. n -> RelateRowKinds] : n \in 0 .. MaxRelateRows}

\* the cmdb_rel_ci records on the remote
ExistingRelSets ==
    {{}, {[type |-> "t1", parent |-> "ci1", child |-> "h1"]},
     {[type |-> "t1", parent |-> "ci1", child |-> "h9"]},
     {[type |-> "t2", parent |-> "ci3", child |-> "k1"]}}

\* util.one on the list a query returned
One(arr) ==
    IF Len(arr) = 0 THEN [thrown |-> FALSE, found |-> FALSE]
    ELSE IF Len(arr) > 1 THEN [thrown |-> TRUE, found |-> FALSE]
    ELSE [thrown |-> FALSE, found |-> TRUE, record |-> arr[1]]

\* the body of the first loop for column i: TRUE when it throws
RelationshipRefused(r, i) ==
    LET relationship == r.relationships[i]
        got == One(RelTypeRecords(relationship))
    IN  \/ relationship = ""
        \/ ~HasRelationshipFormat(relationship)
        \/ got.thrown
        \/ ~got.found
        \/ \E k \in 1 .. Len(r.types) : r.types[k].sys_id = got.record.sys_id

RowField(row, columnName) ==
    IF columnName = "u_host" THEN row.u_host ELSE row.u_cluster

\* newRels of a column
NewRels(rows, columnName, type) ==
    {[type |-> type.sys_id, parent |-> rows[k].sys_id,
      child |-> RowField(rows[k], columnName)] :
        k \in {n \in 1 .. Len(rows) : RowField(rows[n], columnName) # ""}}

\* every record of the type, whatever its parent
ExistingRelsOfType(existing, rows, type) ==
    {rel \in existing : rel.type = type.sys_id}

\* existingRels of a column: the records of the type whose parent is a row
ExistingRels(existing, rows, type) ==
    {rel \in existing :
        /\ rel.type = type.sys_id
        /\ \E k \in 1 .. Len(rows) : rows[k].sys_id = rel.parent}

SameIndex(a, b) == a.parent = b.parent /\ a.child = b.child

\* the create and delete requests of the diff of one column
DiffWrites(prev, next) ==
    {[op |-> "create", rel |-> n] :
        n \in {x \in next : ~\E p \in prev : SameIndex(p, x)}}
    \cup {[op |-> "delete", rel |-> p] :
        p \in {x \in prev : ~\E n \in next : SameIndex(x, n)}}

InitRelate ==
    /\ readOnly = FALSE
    /\ calls = <<>>
    /\ readBucket = 0
    /\ writeBucket = 0
    /\ cache = <<>>
    /\ resolved = <<>>
    /\ getters = <<>>
    /\ now = 0
    /\ fetches = 0
    /\ run = <<>>
    /\ mpc = "none"
    /\ pending = <<>>
    /\ remote = <<>>
    /\ policy = <<>>
    /\ exec = <<>>
    /\ sent = {}
    /\ result = <<>>
    /\ desired = <<>>
    /\ rtable = <<>>
    /\ tpc = "none"
    /\ tplan = <<>>
    /\ twrites = <<>>
    /\ commits = [started |-> <<>>, running |-> 0]
    /\ conversion = <<>>
    /\ hierarchy = <<>>
    /\ descriptor = <<>>
    /\ paging = <<>>
    /\ \E relationships \in RelationshipLists, rows \in RelateRowLists,
          existing \in ExistingRelSets, status \in BOOLEAN :
            relate = [pc |-> "idle", relationships |-> relationships,
                      rows |-> rows, existing |-> existing, status |-> status,
                      types |-> <<>>, synced |-> 0, writes |-> {}]
    /\ dataPolicies = <<>>
    /\ keying = <<>>
    /\ resync = <<>>
    /\ recordCache = <<>>
    /\ expansion = <<>>
    /\ payloads = <<>>

\* rows(rows, relationships, status) up to the first loop
RowsCall ==
    /\ relate.pc = "idle"
    /\ relate' = [relate EXCEPT !.pc = IF relate.status THEN "types" ELSE "threw"]
    /\ UNCHANGED notRelateVars

\* one pass of the first loop: resolve the type of the next column
ResolveType ==
    /\ relate.pc = "types"
    /\ Len(relate.types) < Len(relate.relationships)
    /\ LET i == Len(relate.types) + 1
       IN  relate' =
             IF RelationshipRefused(relate, i)
             THEN [relate EXCEPT !.pc = "threw"]
             ELSE [relate EXCEPT
                     !.types = Append(@, RelTypeRecords(relate.relationships[i])[1])]
    /\ UNCHANGED notRelateVars

\* the end of the first loop
TypesResolved ==
    /\ relate.pc = "types"
    /\ Len(relate.types) = Len(relate.relationships)
    /\ relate' = [relate EXCEPT
                    !.pc = IF Len(relate.types) = 0 THEN "done" ELSE "sync"]
    /\ UNCHANGED notRelateVars

\* a second loop that starts on a column as soon as its type is known
MaySyncResolved(r) == r.pc \in {"types", "sync"} /\ r.synced < Len(r.types)

\* the second loop runs after the first has ended
MaySync(r) == r.pc = "sync" /\ r.synced < Len(r.types)

\* one pass of the second loop: the diff of the next column and its writes
SyncRelationships ==
    /\ MaySync(relate)
    /\ LET i == relate.synced + 1
           type == relate.types[i]
           next == NewRels(relate.rows, RelateColumns[i], type)
           prev == ExistingRels(relate.existing, relate.rows, type)
           writes == DiffWrites(prev, next)
       IN  relate' =
             IF \E k \in 1 .. Len(relate.rows) : relate.rows[k].sys_id = ""
             THEN [relate EXCEPT !.pc = "threw"]
             ELSE [relate EXCEPT
                     !.synced = i,
                     !.writes = @ \cup writes,
                     !.existing =
                        (@ \ {w.rel : w \in {x \in writes : x.op = "delete"}})
                        \cup {w.rel : w \in {x \in writes : x.op = "create"}}]
    /\ UNCHANGED notRelateVars

\* the end of the second loop
RowsReturn ==
    /\ relate.pc = "sync"
    /\ relate.synced = Len(relate.types)
    /\ relate' = [relate EXCEPT !.pc = "done"]
    /\ UNCHANGED notRelateVars

NextRelate ==
    \/ RowsCall
    \/ ResolveType
    \/ TypesResolved
    \/ SyncRelationships
    \/ RowsReturn

SpecRelate == InitRelate /\ [][NextRelate]_vars

(***************************************************************************)
(* Properties of CRelate.rows                                              *)
(***************************************************************************)
TypeNotFound(relationship) == Len(RelTypeRecords(relationship)) = 0

\* some column's type is not in cmdb_rel_type, or two columns have the
\* same type
InvalidRelationships(relationships) ==
    \/ \E i \in 1 .. Len(relationships) : TypeNotFound(relationships[i])
    \/ \E i, j \in 1 .. Len(relationships) :
          /\ i # j
          /\ Len(RelTypeRecords(relationships[i])) = 1
          /\ RelTypeRecords(relationships[i]) = RelTypeRecords(relationships[j])

\* C28: when a column's relationship type is not found or two columns
\* resolve to the same type, rows() issues no cmdb_rel_ci create or delete
\* for any column and never gets past the validation: it can only throw.
C28_NoWriteBeforeAllTypesValid ==
    InvalidRelationships(relate.relationships) =>
        /\ relate.writes = {}
        /\ relate.pc \notin {"sync", "done"}

\* the second of two columns repeats the type of the first, whose rows
\* had relationships to create: the call threw
C28_Witness ==
    /\ relate.pc = "threw"
    /\ relate.status
    /\ Len(relate.relationships) = 2
    /\ relate.relationships[1] = relate.relationships[2]
    /\ Len(relate.types) = 1
    /\ NewRels(relate.rows, RelateColumns[1], relate.types[1]) # {}
    /\ \A k \in 1 .. Len(relate.rows) : relate.rows[k].sys_id # ""

(***************************************************************************)
(* Part 9.  CPolicy.getMine and toggleData called concurrently             *)
(*                                                                         *)
(* records holds the sys_data_policy2 records the remote has for one table *)
(* and one user.  Each operation is a call of toggleData; it gives up      *)
(* control at every request, where the other operations may run.  overlap  *)
(* records whether an operation ever started while another was under way,  *)
(* and alone whether an operation started while no other was under way.    *)
(***************************************************************************)
\* number of policy operations
NumPolicyCalls == 3

PolicyCalls == 1 .. NumPolicyCalls

\* isActive of toggle(tableName, isActive)
IsActiveArguments == {"true", "false", "undefined"}

NoPolicy == [sys_id |-> 0, active |-> FALSE, conforms |-> FALSE]

\* the records before any operation: none, or the one an earlier run made
InitialPolicyRecords ==
    {<<>>} \cup {<<[sys_id |-> 1, active |-> a, conforms |-> c]>> :
                    a \in BOOLEAN, c \in BOOLEAN}

UnderWay(call) == call.pc \notin {"idle", "returned", "threw"}

\* PUT of some fields of the record with the given sys_id
UpdateRecord(records, sys_id, field, value) ==
    [k \in 1 .. Len(records) |->
        IF records[k].sys_id # sys_id THEN records[k]
        ELSE IF field = "active" THEN [records[k] EXCEPT !.active = value]
        ELSE [records[k] EXCEPT !.conforms = value]]

InitPolicy ==
    /\ readOnly = FALSE
    /\ calls = <<>>
    /\ readBucket = 0
    /\ writeBucket = 0
    /\ cache = <<>>
    /\ resolved = <<>>
    /\ getters = <<>>
    /\ now = 0
    /\ fetches = 0
    /\ run = <<>>
    /\ mpc = "none"
    /\ pending = <<>>
    /\ remote = <<>>
    /\ policy = <<>>
    /\ exec = <<>>
    /\ sent = {}
    /\ result = <<>>
    /\ desired = <<>>
    /\ rtable = <<>>
    /\ tpc = "none"
    /\ tplan = <<>>
    /\ twrites = <<>>
    /\ commits = [started |-> <<>>, running |-> 0]
    /\ conversion = <<>>
    /\ hierarchy = <<>>
    /\ descriptor = <<>>
    /\ paging = <<>>
    /\ relate = <<>>
    /\ \E records \in InitialPolicyRecords :
          dataPolicies =
            [records |-> records,
             calls |-> [p \in PolicyCalls |->
                          [pc |-> "idle", isActive |-> "undefined",
                           tablePolicy |-> NoPolicy, alone |-> FALSE]],
             overlap |-> FALSE]
    /\ keying = <<>>
    /\ resync = <<>>
    /\ recordCache = <<>>
    /\ expansion = <<>>
    /\ payloads = <<>>

\* toggle(tableName, isActive) is called and getMine sends its first query
ToggleCall(p, isActive) ==
    /\ dataPolicies.calls[p].pc = "idle"
    /\ dataPolicies' =
         [dataPolicies EXCEPT
            !.calls[p] =
               [@ EXCEPT !.pc = "get", !.isActive = isActive,
                         !.alone = \A q \in PolicyCalls :
                                      ~UnderWay(dataPolicies.calls[q])],
            !.overlap = @ \/ \E q \in PolicyCalls : UnderWay(dataPolicies.calls[q])]
    /\ UNCHANGED notPolicyVars

\* get(): the query returns and one() picks the record; again says whether
\* this is the query after the create
GetPolicy(p, again) ==
    /\ dataPolicies.calls[p].pc = IF again THEN "reget" ELSE "get"
    /\ LET got == One(dataPolicies.records)
       IN  dataPolicies' =
             [dataPolicies EXCEPT
                !.calls[p] =
                   IF got.thrown THEN [@ EXCEPT !.pc = "threw"]
                   ELSE IF got.found
                   THEN [@ EXCEPT !.pc = "check", !.tablePolicy = got.record]
                   ELSE IF again THEN [@ EXCEPT !.pc = "threw"]
                   ELSE [@ EXCEPT !.pc = "create"]]
    /\ UNCHANGED notPolicyVars

\* client.create(policyTable, targetPolicy): the remote adds a record
CreatePolicy(p) ==
    /\ dataPolicies.calls[p].pc = "create"
    /\ dataPolicies' =
         [dataPolicies EXCEPT
            !.records = Append(@, [sys_id |-> Len(@) + 1, active |-> TRUE,
                                   conforms |-> TRUE]),
            !.calls[p] = [@ EXCEPT !.pc = "reget"]]
    /\ UNCHANGED notPolicyVars

\* the fields are compared with the target and updated when they differ;
\* getMine returns the record it read
CheckPolicy(p) ==
    /\ dataPolicies.calls[p].pc = "check"
    /\ LET mine == dataPolicies.calls[p].tablePolicy
       IN  dataPolicies' =
             [dataPolicies EXCEPT
                !.records = IF mine.conforms THEN @
                            ELSE UpdateRecord(@, mine.sys_id, "conforms", TRUE),
                !.calls[p] = [@ EXCEPT !.pc = "toggle"]]
    /\ UNCHANGED notPolicyVars

\* toggleData after getMine: update active when it differs, return true
TogglePolicy(p) ==
    /\ dataPolicies.calls[p].pc = "toggle"
    /\ LET mine == dataPolicies.calls[p].tablePolicy
           isActive == IF dataPolicies.calls[p].isActive = "undefined"
                       THEN ~mine.active
                       ELSE dataPolicies.calls[p].isActive = "true"
       IN  dataPolicies' =
             [dataPolicies EXCEPT
                !.records = IF mine.active # isActive
                            THEN UpdateRecord(@, mine.sys_id, "active", isActive)
                            ELSE @,
                !.calls[p] = [@ EXCEPT !.pc = "returned"]]
    /\ UNCHANGED notPolicyVars

NextPolicy ==
    \E p \in PolicyCalls :
        \/ \E isActive \in IsActiveArguments : ToggleCall(p, isActive)
        \/ \E again \in BOOLEAN : GetPolicy(p, again)
        \/ CreatePolicy(p)
        \/ CheckPolicy(p)
        \/ TogglePolicy(p)

SpecPolicy == InitPolicy /\ [][NextPolicy]_vars

(***************************************************************************)
(* Properties of concurrent policy operations                              *)
(***************************************************************************)
NoCallThrew == \A p \in PolicyCalls : dataPolicies.calls[p].pc # "threw"

\* C29: however the policy operations on one table by one user interleave,
\* the remote has at most one sys_data_policy2 record for them and no
\* operation fails.
C29_AtMostOnePolicyRecord ==
    /\ Len(dataPolicies.records) <= 1
    /\ NoCallThrew

\* C29, one operation at a time: as long as no operation started while
\* another was under way, there is at most one record and none failed.
C29_OneAtATimeKeepsOneRecord ==
    ~dataPolicies.overlap => C29_AtMostOnePolicyRecord

\* C29: two operations that overlapped left two records, and an operation
\* that started when both had ended threw
C29_LaterOperationThrew ==
    /\ Len(dataPolicies.records) = 2
    /\ \E p \in PolicyCalls :
          /\ dataPolicies.calls[p].alone
          /\ dataPolicies.calls[p].pc = "threw"
          /\ \A q \in PolicyCalls \ {p} :
                dataPolicies.calls[q].pc \in {"returned", "threw"}

(***************************************************************************)
(* Part 10.  CDelta.merge: the forms of primaryKey                         *)
(*                                                                         *)
(* merge turns run.primaryKey into a function before it sends a request,   *)
(* then encodes each row with convertSN and applies the function to the    *)
(* encoded row.  The rows here have values whose wire form differs from    *)
(* the value given: a number, null and booleans.                           *)
(***************************************************************************)
\* run.primaryKey: a string, a function (row => row.name), undefined, a
\* list of strings, or null
PrimaryKeyForms ==
    PrimaryKeys
    \cup {[kind |-> "string", field |-> "name"],
          [kind |-> "list", field |-> ""],
          [kind |-> "null", field |-> ""]}

\* the fields a primaryKey list names, sorted
ListedFields == <<"name", "u_name">>

KeyedRowSet ==
    {(IF u = Obj THEN EmptyRow ELSE ("u_name" :> u))
        @@ (IF f = Obj THEN EmptyRow ELSE ("u_in_datamart" :> f))
        @@ ("name" :> n) :
        u \in {Str("a"), [t |-> "number", v |-> "7"], [t |-> "null", v |-> ""], Obj},
        f \in {Bool(TRUE), Bool(FALSE), Obj},
        n \in {Str("x"), Obj}}

\* what is left of primaryKey after the tests on its type: a function, or
\* the throw of `Primary key must be function or string`
IsKeyFunction(pk) == pk.kind \in {"string", "undefined", "function"}

InitKey ==
    /\ readOnly = FALSE
    /\ calls = <<>>
    /\ readBucket = 0
    /\ writeBucket = 0
    /\ cache = <<>>
    /\ resolved = <<>>
    /\ getters = <<>>
    /\ now = 0
    /\ fetches = 0
    /\ run = <<>>
    /\ mpc = "none"
    /\ pending = <<>>
    /\ remote = <<>>
    /\ policy = <<>>
    /\ exec = <<>>
    /\ sent = {}
    /\ result = <<>>
    /\ desired = <<>>
    /\ rtable = <<>>
    /\ tpc = "none"
    /\ tplan = <<>>
    /\ twrites = <<>>
    /\ commits = [started |-> <<>>, running |-> 0]
    /\ conversion = <<>>
    /\ hierarchy = <<>>
    /\ descriptor = <<>>
    /\ paging = <<>>
    /\ relate = <<>>
    /\ dataPolicies = <<>>
    /\ \E pk \in PrimaryKeyForms, row \in KeyedRowSet :
          keying = [pc |-> "called", primaryKey |-> pk, row |-> row,
                    snRow |-> EmptyRow, cid |-> ""]
    /\ resync = <<>>
    /\ recordCache = <<>>
    /\ expansion = <<>>
    /\ payloads = <<>>

\* merge(run) up to the load of the existing rows
ResolvePrimaryKey ==
    /\ keying.pc = "called"
    /\ keying' = [keying EXCEPT
                    !.pc = IF IsKeyFunction(keying.primaryKey)
                           THEN "resolved" ELSE "refused"]
    /\ UNCHANGED notKeyVars

\* snRow = convertSN(tableName, row)
EncodeRow ==
    /\ keying.pc = "resolved"
    /\ LET conv == ConvertSN(TableSchema(TRUE), keying.row)
       IN  keying' = IF conv.ok
                     THEN [keying EXCEPT !.pc = "encoded", !.snRow = conv.row]
                     ELSE [keying EXCEPT !.pc = "threw"]
    /\ UNCHANGED notKeyVars

\* cid = primaryKey(snRow)
KeyRow ==
    /\ keying.pc = "encoded"
    /\ keying' = [keying EXCEPT
                    !.pc = "keyed",
                    !.cid = PrimaryKeyOf(keying.primaryKey, keying.snRow)]
    /\ UNCHANGED notKeyVars

NextKey ==
    \/ ResolvePrimaryKey
    \/ EncodeRow
    \/ KeyRow

SpecKey == InitKey /\ [][NextKey]_vars

(***************************************************************************)
(* Properties of the primary key                                           *)
(***************************************************************************)
\* "k=v" for each of the keys in turn, joined
RECURSIVE JoinPairs(_, _)
JoinPairs(row, ks) ==
    IF ks = <<>> THEN ""
    ELSE Head(ks) \o "=" \o Field(row, Head(ks)) \o JoinPairs(row, Tail(ks))

IsUKeyOf(row, k) == k \in DOMAIN row /\ StartsWithU(k)

RECURSIVE UKeysOf(_, _)
UKeysOf(row, ks) ==
    IF ks = <<>> THEN <<>>
    ELSE (IF IsUKeyOf(row, Head(ks)) THEN <<Head(ks)>> ELSE <<>>)
         \o UKeysOf(row, Tail(ks))

\* the wire form of the row of the call
WireRowOf(k) == ConvertSN(TableSchema(TRUE), k.row).row

\* the key each form of primaryKey stands for, on the wire row
StatedKey(pk, wire) ==
    CASE pk.kind = "string" -> Field(wire, pk.field)
      [] pk.kind = "list" -> Md5(JoinPairs(wire, ListedFields))
      [] OTHER -> Md5(JoinPairs(wire, UKeysOf(wire, SortedKeys)))

\* C30: merge accepts a primaryKey that is a string, a list of strings or
\* absent, and the key of a row is then the field, the md5 of the listed
\* key=value pairs, or the md5 of the u_ key=value pairs, of the wire row.
C30_EveryKeyFormAccepted ==
    keying.primaryKey.kind \in {"string", "list", "undefined"} =>
        /\ keying.pc # "refused"
        /\ keying.pc = "keyed" =>
              keying.cid = StatedKey(keying.primaryKey, WireRowOf(keying))

\* C30 without the list: a string and an absent primaryKey are accepted and
\* give the field, or the md5 of the u_ pairs, of the wire row.
C30_StringAndAbsentKeyTheWireRow ==
    keying.primaryKey.kind \in {"string", "undefined"} =>
        /\ keying.pc # "refused"
        /\ keying.pc = "keyed" =>
              keying.cid = StatedKey(keying.primaryKey, WireRowOf(keying))

\* C30: a primaryKey that is a list of strings made merge throw
C30_ListRefused ==
    /\ keying.primaryKey.kind = "list"
    /\ keying.pc = "refused"

\* C30: the default key of a row given with a number and the boolean true
\* is the hash of their wire strings
C30_DefaultKeyOfWireStrings ==
    /\ keying.pc = "keyed"
    /\ keying.primaryKey.kind = "undefined"
    /\ "u_in_datamart" \in DOMAIN keying.row
    /\ keying.row["u_in_datamart"] = Bool(TRUE)
    /\ keying.cid = Md5("u_in_datamart=1u_name=7")

(***************************************************************************)
(* Properties of column planning: updates that are not allowed             *)
(***************************************************************************)
\* the existing column is inherited or is not a user column
NotOwnColumn(col) ==
    \/ ExistingColumns[col.name].table # desired.name
    \/ ~StartsWithUnderscoreU(col.name)

\* some compared attribute of the desired column differs
Differs(col) ==
    \/ ChangedFields(ExistingColumns[col.name], col) # {}
    \/ ChangedChoices(ExistingColumns[col.name], col)
    \/ ChangedDataPolicy(ExistingColumns[col.name], col)

\* C31: a desired column that differs, in label, max_length, choice,
\* choice_map or data_policy, from an existing column that is inherited or
\* not named u_..., is planned as an error and never as an update.
C31_NotOwnColumnNeverUpdated ==
    tpc = "planned" =>
        \A id \in DOMAIN NewColumns :
            (/\ ExistsOnTable(NewColumns[id])
             /\ NotOwnColumn(NewColumns[id])
             /\ Differs(NewColumns[id])) =>
                /\ id \in DOMAIN tplan
                /\ tplan[id].type = "error"

\* C31 for label, max_length and choice: when one of these differs the
\* column that is not the table's own is planned as an error.
C31_FieldChangeIsError ==
    tpc = "planned" =>
        \A id \in DOMAIN NewColumns :
            (/\ ExistsOnTable(NewColumns[id])
             /\ NotOwnColumn(NewColumns[id])
             /\ ChangedFields(ExistingColumns[NewColumns[id].name],
                              NewColumns[id]) # {}) =>
                /\ id \in DOMAIN tplan
                /\ tplan[id].type = "error"

\* C31: an inherited column whose data policy alone differs is planned as
\* an update
C31_PolicyChangeOfInheritedColumnUpdates ==
    /\ tpc = "planned"
    /\ "a" \in DOMAIN tplan
    /\ tplan["a"].type = "update"
    /\ ExistingColumns[NewColumns["a"].name].table = ParentName
    /\ DOMAIN tplan["a"].commit = {"name", "sys_id", "data_policy"}

(***************************************************************************)
(* Part 11.  CTable.sync with commit: the pause before the second sync     *)
(*                                                                         *)
(* now counts seconds.  sync.sleep(ms) returns a promise that is resolved  *)
(* when the time has passed (everywhere else the code awaits it); a call   *)
(* that does not await the promise goes on at once, and the timer fires    *)
(* with nobody waiting for it.                                             *)
(***************************************************************************)
\* the seconds of sync.sleep(2000)
SleepSeconds == 2

\* the last second of the clock
MaxClock == 5

NoTime == 0 - 1

InitSleep ==
    /\ readOnly = FALSE
    /\ calls = <<>>
    /\ readBucket = 0
    /\ writeBucket = 0
    /\ cache = <<>>
    /\ resolved = <<>>
    /\ getters = <<>>
    /\ now = 0
    /\ fetches = 0
    /\ run = <<>>
    /\ mpc = "none"
    /\ pending = <<>>
    /\ remote = <<>>
    /\ policy = <<>>
    /\ exec = <<>>
    /\ sent = {}
    /\ result = <<>>
    /\ desired = <<>>
    /\ rtable = <<>>
    /\ tpc = "none"
    /\ tplan = <<>>
    /\ twrites = <<>>
    /\ commits = [started |-> <<>>, running |-> 0]
    /\ conversion = <<>>
    /\ hierarchy = <<>>
    /\ descriptor = <<>>
    /\ paging = <<>>
    /\ relate = <<>>
    /\ dataPolicies = <<>>
    /\ keying = <<>>
    /\ \E exists \in BOOLEAN, commit \in BOOLEAN :
          resync = [pc |-> "called", exists |-> exists, commit |-> commit,
                    newTable |-> FALSE, createdAt |-> NoTime,
                    timerDue |-> NoTime, timerFired |-> FALSE,
                    resyncAt |-> NoTime]
    /\ recordCache = <<>>
    /\ expansion = <<>>
    /\ payloads = <<>>

\* the clock
TickSleep ==
    /\ now < MaxClock
    /\ now' = now + 1
    /\ UNCHANGED <<readOnly, calls, readBucket, writeBucket, cache, resolved,
                   getters, fetches>>
    /\ UNCHANGED <<deltaVars, tableVars, convVars, getVars, recordsVars,
                   relateVars, policyVars, keyVars, sleepVars, expandVars,
                   payloadVars>>

\* sync up to the plan: the table is fetched and the actions are planned;
\* without opts.commit the plan is returned
SyncPlan ==
    /\ resync.pc = "called"
    /\ resync' = [resync EXCEPT
                    !.pc = IF resync.commit THEN "commit" ELSE "returned",
                    !.newTable = ~resync.exists]
    /\ UNCHANGED notSleepVars

\* await this.commitAll(pending) has ended: for a new table this is the
\* end of the table-create request.  Then, in one turn, sync.sleep(2000) is
\* called and its promise dropped, and the recursive sync(table) runs up to
\* its request for the table
CommitAllDone ==
    /\ resync.pc = "commit"
    /\ resync' = IF resync.newTable
                 THEN [resync EXCEPT !.pc = "resync", !.createdAt = now,
                                     !.timerDue = now + SleepSeconds,
                                     !.resyncAt = now]
                 ELSE [resync EXCEPT !.pc = "returned"]
    /\ UNCHANGED notSleepVars

\* the timer of the sleep fires
SleepTimer ==
    /\ resync.timerDue # NoTime
    /\ ~resync.timerFired
    /\ now >= resync.timerDue
    /\ resync' = [resync EXCEPT !.timerFired = TRUE]
    /\ UNCHANGED notSleepVars

\* the second sync returns its plan p: with new columns commitAll(p) runs
\* and sync returns true, without it sync throws
ResyncDone(newCols) ==
    /\ resync.pc = "resync"
    /\ resync' = [resync EXCEPT !.pc = IF newCols THEN "returned" ELSE "threw"]
    /\ UNCHANGED notSleepVars

NextSleep ==
    \/ TickSleep
    \/ SyncPlan
    \/ CommitAllDone
    \/ SleepTimer
    \/ \E newCols \in BOOLEAN : ResyncDone(newCols)

SpecSleep == InitSleep /\ [][NextSleep]_vars

(***************************************************************************)
(* Properties of the pause                                                 *)
(***************************************************************************)
\* C32: when sync with commit has created the table, the second fetch of
\* the table starts no sooner than 2 seconds after the create request ended.
C32_ResyncWaitsTwoSeconds ==
    resync.resyncAt # NoTime =>
        resync.resyncAt >= resync.createdAt + SleepSeconds

\* C32, the timer: the sleep that follows the create is set to 2 seconds,
\* and only after a table was created.
C32_TimerSetToTwoSeconds ==
    /\ resync.timerDue # NoTime =>
          resync.newTable /\ resync.timerDue = resync.createdAt + SleepSeconds
    /\ resync.timerFired => now >= resync.createdAt + SleepSeconds

\* C32: the second sync has ended before the timer of the sleep fired
C32_ResyncEndedBeforeTimer ==
    /\ resync.pc = "returned"
    /\ resync.newTable
    /\ ~resync.timerFired
    /\ now < resync.timerDue

(***************************************************************************)
(* Properties of a merge run without changes                               *)
(***************************************************************************)
EmptyPending ==
    Len(pending.create) + Len(pending.update) + Len(pending.delete) = 0

\* C33: when the plan has no create, no update and no delete, merge returns
\* rowsMatched and three zero counters, policy.toggle is never called and
\* no write request is issued.
C33_NoChangesNoToggleNoWrite ==
    (mpc \notin {"start", "thrown"} /\ EmptyPending) =>
        /\ mpc \in {"planned", "returned"}
        /\ policy.off = 0
        /\ policy.on = 0
        /\ policy.active
        /\ sent = {}
        /\ exec = NoExec
        /\ mpc = "returned" =>
              result.ret = [kind |-> "ok", rowsMatched |-> pending.rowsMatched,
                            rowsCreated |-> 0, rowsUpdated |-> 0,
                            rowsDeleted |-> 0]

\* a run whose incoming rows all matched existing rows returned
C33_Witness ==
    /\ mpc = "returned"
    /\ EmptyPending
    /\ Len(run.rows) > 0
    /\ pending.rowsMatched > 0
    /\ result.ret.rowsMatched = pending.rowsMatched

(***************************************************************************)
(* Merge runs with rows that convertSN refuses: an incoming row, or a row  *)
(* getRecords returned, may hold a value that is no string, number,        *)
(* boolean or Date in its name column.                                     *)
(***************************************************************************)
InvalidRow == ("u_name" :> Str("b")) @@ ("name" :> Obj)

\* the list with the name of its row j replaced by such a value; j = 0
\* leaves the list as it is
WithInvalidName(rows, j) ==
    [n \in 1 .. Len(rows) |->
        IF n = j THEN ("name" :> Obj) @@ rows[n] ELSE rows[n]]

InitMergeInvalid ==
    /\ readOnly = FALSE
    /\ calls = <<>>
    /\ readBucket = 0
    /\ writeBucket = 0
    /\ cache = <<>>
    /\ resolved = {}
    /\ getters = <<>>
    /\ now = 0
    /\ fetches = <<>>
    /\ \E hasFlag \in BOOLEAN, allowDeletes \in BOOLEAN :
       \E rows \in SeqsUpTo(MergeRowSet \cup {InvalidRow}, MaxRows),
          rem \in SeqsUpTo(RemoteRowSet(hasFlag), MaxRemote) :
       \E j \in 0 .. Len(rem) :
            /\ remote = [rows |-> [n \in 1 .. Len(rem) |-> [rem[n] EXCEPT !["sys_id"] = SysIds[n]]],
                         nextId |-> 1]
            /\ run = [rows |-> rows,
                      existing |-> WithInvalidName(
                                     GetRecords(TableSchema(hasFlag), remote.rows), j),
                      primaryKey |-> [kind |-> "string", field |-> "u_name"],
                      allowDeletes |-> allowDeletes, hasFlag |-> hasFlag]
    /\ mpc = "start"
    /\ pending = EmptyPlan
    /\ policy = [active |-> TRUE, disabled |-> FALSE, off |-> 0, on |-> 0]
    /\ exec = NoExec
    /\ sent = {}
    /\ result = [runNo |-> 1, first |-> NoResult, ret |-> NoResult]
    /\ desired = <<>>
    /\ rtable = <<>>
    /\ tpc = "none"
    /\ tplan = <<>>
    /\ twrites = <<>>
    /\ commits = [started |-> <<>>, running |-> 0]
    /\ conversion = <<>>
    /\ hierarchy = <<>>
    /\ descriptor = <<>>
    /\ paging = <<>>
    /\ relate = <<>>
    /\ dataPolicies = <<>>
    /\ keying = <<>>
    /\ resync = <<>>
    /\ recordCache = <<>>
    /\ expansion = <<>>
    /\ payloads = <<>>

SpecMergeInvalid == InitMergeInvalid /\ [][NextMerge]_vars

(***************************************************************************)
(* Properties of a merge run with a row that cannot be encoded             *)
(***************************************************************************)
Refused(rows) ==
    \E n \in 1 .. Len(rows) : ~ConvertSN(TableSchema(run.hasFlag), rows[n]).ok

\* C34: when convertSN fails for an incoming or an existing row, merge
\* throws, policy.toggle is never called and no create, update or delete
\* request is issued.
C34_ConversionFailureThrowsFirst ==
    (Refused(run.rows) \/ Refused(run.existing)) =>
        /\ mpc \in {"start", "thrown"}
        /\ policy.off = 0
        /\ policy.on = 0
        /\ sent = {}

\* merge threw on a row of the remote table while the incoming rows alone
\* would have been created
C34_Witness ==
    /\ mpc = "thrown"
    /\ Refused(run.existing)
    /\ ~Refused(run.rows)
    /\ Len(run.rows) > 0
    /\ sent = {}

(***************************************************************************)
(* getRecords with the record cache.  The entry of the cache key is        *)
(* missing, too old for the expiry of 3 days, or fresh with some rows;     *)
(* updatedAfter and updatedBefore are the counts the remote gives for      *)
(* sys_updated_on >= mtime and sys_updated_on <= mtime.                    *)
(***************************************************************************)
CacheEntries == {"none", "expired", "fresh"}

CachedRowCounts == {0, 2}

UpdatedCounts == {0, 2, 3}

\* a cache that is trusted as soon as no row is newer than it
CacheUsableIfNothingNew(rc) == rc.updatedAfter = 0

\* no row was updated since the cache was written and as many rows as the
\* cache holds were updated before
CacheUsable(rc) == rc.updatedAfter = 0 /\ rc.updatedBefore = rc.rows

InitRecordsCache ==
    /\ readOnly = FALSE
    /\ calls = <<>>
    /\ readBucket = 0
    /\ writeBucket = 0
    /\ cache = <<>>
    /\ resolved = <<>>
    /\ getters = <<>>
    /\ now = 0
    /\ fetches = 0
    /\ run = <<>>
    /\ mpc = "none"
    /\ pending = <<>>
    /\ remote = <<>>
    /\ policy = <<>>
    /\ exec = <<>>
    /\ sent = {}
    /\ result = <<>>
    /\ desired = <<>>
    /\ rtable = <<>>
    /\ tpc = "none"
    /\ tplan = <<>>
    /\ twrites = <<>>
    /\ commits = [started |-> <<>>, running |-> 0]
    /\ conversion = <<>>
    /\ hierarchy = <<>>
    /\ descriptor = <<>>
    /\ relate = <<>>
    /\ dataPolicies = <<>>
    /\ keying = <<>>
    /\ resync = <<>>
    /\ paging = [pc |-> "called", count |-> 0, pageSize |-> 0, totalPages |-> 0,
                 requests |-> 0]
    /\ \E requested \in BOOLEAN, entry \in CacheEntries, rows \in CachedRowCounts,
          updatedAfter \in UpdatedCounts, updatedBefore \in UpdatedCounts :
            recordCache = [requested |-> requested, keyed |-> FALSE,
                           entry |-> entry,
                           rows |-> IF entry = "none" THEN 0 ELSE rows,
                           updatedAfter |-> updatedAfter,
                           updatedBefore |-> updatedBefore,
                           reads |-> 0, writes |-> 0]
    /\ expansion = <<>>
    /\ payloads = <<>>

\* getRecords up to the count of the query: with opts.cache and a query
\* that does not name sys_updated_on the cache is read (its mtime, then the
\* rows when it has an mtime) and its rows are returned when they are usable
CacheLookup(queryNamesUpdatedOn) ==
    /\ paging.pc = "called"
    /\ IF recordCache.requested /\ ~queryNamesUpdatedOn
       THEN /\ recordCache' =
                 [recordCache EXCEPT
                    !.keyed = TRUE,
                    !.reads = IF recordCache.entry = "none" THEN 1 ELSE 2]
            /\ paging' =
                 [paging EXCEPT
                    !.pc = IF recordCache.entry = "fresh" /\ CacheUsable(recordCache)
                           THEN "cached" ELSE "idle"]
       ELSE /\ paging' = [paging EXCEPT !.pc = "idle"]
            /\ UNCHANGED recordCache
    /\ UNCHANGED notRecordsVars

NextRecordsCache ==
    \/ \E queryNamesUpdatedOn \in BOOLEAN : CacheLookup(queryNamesUpdatedOn)
    \/ \E count \in RemoteCounts, optMaxRecords \in MaxRecordsOptions,
          optPageSize \in PageSizeOptions :
            GetRecordsCount(count, optMaxRecords, optPageSize)
    \/ FetchPage
    \/ GetRecordsReturn

SpecRecordsCache == InitRecordsCache /\ [][NextRecordsCache]_vars

(***************************************************************************)
(* Properties of the record cache                                          *)
(***************************************************************************)
\* C35: getRecords returns the cached rows only when caching was asked
\* for, the entry is within its expiry, no row was updated since and as
\* many rows as cached were updated before; otherwise it returns after
\* fetching every page; and without the cache option the cache is neither
\* read nor written.
C35_CacheServedOnlyWhenUnchanged ==
    /\ paging.pc = "cached" =>
          /\ recordCache.requested
          /\ recordCache.entry = "fresh"
          /\ recordCache.updatedAfter = 0
          /\ recordCache.updatedBefore = recordCache.rows
          /\ paging.requests = 0
    /\ paging.pc = "done" => paging.requests = paging.totalPages
    /\ ~recordCache.requested =>
          /\ recordCache.reads = 0
          /\ recordCache.writes = 0
          /\ paging.pc # "cached"

\* two cached rows were returned after the mtime and the rows were read
C35_Witness ==
    /\ paging.pc = "cached"
    /\ recordCache.rows = 2
    /\ recordCache.reads = 2
    /\ recordCache.writes = 0

\* a call with the cache option refetched over an entry that was too old
\* and wrote the cache
C35_RefetchedAndWritten ==
    /\ paging.pc = "done"
    /\ recordCache.reads = 2
    /\ recordCache.writes = 1
    /\ paging.requests > 0

(***************************************************************************)
(* Properties of the writes of CRelate.rows                                *)
(***************************************************************************)
IsRowId(id) == \E k \in 1 .. Len(relate.rows) : relate.rows[k].sys_id = id

\* some given row with this sys_id names the child in the column
RowRelates(columnName, parent, child) ==
    \E k \in 1 .. Len(relate.rows) :
        /\ relate.rows[k].sys_id = parent
        /\ RowField(relate.rows[k], columnName) = child

ColumnsOfType(typeId) ==
    {i \in 1 .. relate.synced : relate.types[i].sys_id = typeId}

\* C36: rows() deletes no cmdb_rel_ci record whose parent is not the sys_id
\* of a given row and creates no relationship for an empty column value,
\* and when it has returned no relationship of a given row is left on the
\* remote for a column whose value in that row is empty or another.
C36_WritesOnlyForGivenRows ==
    /\ \A w \in relate.writes :
          /\ w.op = "delete" => IsRowId(w.rel.parent)
          /\ w.op = "create" =>
                /\ w.rel.child # ""
                /\ \E i \in ColumnsOfType(w.rel.type) :
                      RowRelates(RelateColumns[i], w.rel.parent, w.rel.child)
    /\ relate.pc = "done" =>
          \A rel \in relate.existing :
              \A i \in ColumnsOfType(rel.type) :
                  IsRowId(rel.parent) =>
                      RowRelates(RelateColumns[i], rel.parent, rel.child)

\* the relationship of a row whose column is now empty was deleted, and the
\* call returned
C36_Witness ==
    /\ relate.pc = "done"
    /\ \E w \in relate.writes :
          /\ w.op = "delete"
          /\ w.rel.child = "h1"
          /\ \A k \in 1 .. Len(relate.rows) :
                relate.rows[k].sys_id = w.rel.parent => relate.rows[k].u_host = ""

\* C36: a relationship whose parent is no given row is still on the remote
\* after its type was synced
C36_OtherParentKept ==
    /\ relate.pc = "done"
    /\ \E rel \in relate.existing :
          /\ rel.parent = "ci3"
          /\ ColumnsOfType(rel.type) # {}

(***************************************************************************)
(* Termination of CSchema.get                                              *)
(***************************************************************************)

\* the event loop runs every continuation that is ready, and the transport
\* answers every request, with a document or with an error
SchemaFairness ==
    \A g \in 1 .. NumGetters :
        /\ WF_vars(Resume(g) /\ UNCHANGED notSchemaVars)
        /\ WF_vars((FetchOk(g) \/ FetchFail(g)) /\ UNCHANGED notSchemaVars)

SpecSchemaFair == InitSchema /\ [][NextSchema]_vars /\ SchemaFairness

\* the Promise the getter awaits is unresolved and the get() that made it
\* is over
Stranded(g) ==
    /\ getters[g].pc = "waiting"
    /\ getters[g].waited \notin resolved
    /\ \A h \in GetterIds : getters[h].fetch # getters[g].waited

\* C37: every call of get(T) eventually returns a schema or throws.
C37_EveryGetEnds ==
    \A g \in 1 .. NumGetters : (getters[g].pc # "idle") ~> (getters[g].pc = "done")

\* C37: no caller awaits a Promise that nothing will resolve.
C37_NoStrandedWaiter == \A g \in GetterIds : ~Stranded(g)

\* a call made after the failed fetch, without invalidate, is stranded too
C37_StrandedAfterFailure ==
    \E g, h \in GetterIds :
        /\ getters[h].pc = "done" /\ getters[h].thrown
        /\ Stranded(g)
        /\ cache[getters[g].table] = PromiseEntry(getters[g].waited)
        /\ \A k \in GetterIds : getters[k].pc # "fetching"

(***************************************************************************)
(* Part 12.  expandColumn, applied to its own result                       *)
(***************************************************************************)

\* a JS value of a column attribute: absent, a string or a number
NotGiven == [t |-> "undefined", s |-> "", n |-> 0]
StringOf(s) == [t |-> "string", s |-> s, n |-> 0]
NumberOf(n) == [t |-> "number", s |-> "", n |-> n]

\* !v of such a value
Falsy(v) ==
    \/ v.t = "undefined"
    \/ v.t = "string" /\ v.s = ""
    \/ v.t = "number" /\ v.n = 0

\* the type tags of the switch, an upper-case spelling, the tag the switch
\* writes for a reference list, a tag it does not know and a type that is
\* no string
AcceptedTypes ==
    {"text", "html", "url", "string", "choice", "bigint", "long", "integer",
     "float", "decimal", "boolean", "date", "glide_date_time",
     "reference_list", "reference", "guid"}

GivenTypes == AcceptedTypes \cup {"TEXT", "glide_list", "blob", Undef}

GivenColumns ==
    [name : {"u_a", ""},
     type : GivenTypes,
     label : {"", "A label"},
     max_length : {0, 10},
     reference_table : {"", "u_other"},
     choice : {NotGiven, StringOf("nullable"), StringOf("suggestion"),
               StringOf("sometimes"), NumberOf(3)},
     choice_map : BOOLEAN,
     syncback : {Undef, "boolean", "string"},
     data_policy : {Undef, "readonly", "writable", "hidden"}]

\* col.type.toLowerCase()
ToLowerCase(type) == IF type = "TEXT" THEN "text" ELSE type

\* titlize(slug) of the column names of the model
Titlize(slug) == IF slug = "u_a" THEN "A" ELSE slug

\* the type the switch leaves in col.type
SwitchType(type) ==
    CASE type = "text" -> "string"
      [] type \in {"bigint", "long"} -> "long"
      [] type \in {"date", "glide_date_time"} -> "glide_date_time"
      [] type = "reference_list" -> "glide_list"
      [] OTHER -> type

\* default_length
DefaultLengthOf(type) ==
    CASE type \in {"text", "html", "reference_list"} -> 4000
      [] type \in {"url", "string"} -> 255
      [] type \in {"reference", "guid"} -> 32
      [] OTHER -> 40

\* the choice strings expandColumn turns into a number
ChoiceStrings == {"nullable", "suggestion", "required"}

ThrowsWith(col) == [threw |-> TRUE, col |-> col]
Expanded(col) == [threw |-> FALSE, col |-> col]

\* the tail of expandColumn, from the choice of the column
ExpandChoice(col) ==
    IF ~col.choice_map /\ ~Falsy(col.choice) THEN ThrowsWith(col)
    ELSE LET c1 == IF col.choice_map /\ Falsy(col.choice)
                   THEN [col EXCEPT !.choice = StringOf("nullable")]
                   ELSE col
         IN IF c1.choice.t = "string" /\ c1.choice.s \notin ChoiceStrings
            THEN ThrowsWith(c1)
            ELSE LET c2 == IF c1.choice.t = "string"
                           THEN [c1 EXCEPT !.choice = NumberOf(ChoiceNumber(c1.choice.s))]
                           ELSE c1
                 IN IF c2.syncback = "string" THEN ThrowsWith(c2)
                    ELSE IF c2.data_policy \notin {Undef, "readonly", "writable"}
                    THEN ThrowsWith(c2)
                    ELSE Expanded(c2)

\* expandColumn(col): what it leaves in col and whether it threw
ExpandColumnInPlace(col) ==
    IF col.name = "" \/ col.type = Undef THEN ThrowsWith(col)
    ELSE LET type == ToLowerCase(col.type)
             c1 == [col EXCEPT !.type = type,
                               !.label = IF @ = "" THEN Titlize(col.name) ELSE @]
         IN IF type \notin AcceptedTypes THEN ThrowsWith(c1)
            ELSE LET c2 == [c1 EXCEPT !.type = SwitchType(type),
                                      !.max_length = IF @ = 0
                                                     THEN DefaultLengthOf(type)
                                                     ELSE @]
                 IN IF c2.type \in {"reference", "glide_list"}
                       /\ c2.reference_table = ""
                    THEN ThrowsWith(c2)
                    ELSE ExpandChoice(c2)

\* a column object before any call of expandColumn
InitExpand ==
    /\ readOnly = FALSE
    /\ calls = <<>>
    /\ readBucket = 0
    /\ writeBucket = 0
    /\ cache = <<>>
    /\ resolved = {}
    /\ getters = <<>>
    /\ now = 0
    /\ fetches = <<>>
    /\ run = <<>>
    /\ mpc = "none"
    /\ pending = <<>>
    /\ remote = <<>>
    /\ policy = <<>>
    /\ exec = <<>>
    /\ sent = {}
    /\ result = <<>>
    /\ desired = <<>>
    /\ rtable = <<>>
    /\ tpc = "none"
    /\ tplan = <<>>
    /\ twrites = <<>>
    /\ commits = [started |-> <<>>, running |-> 0]
    /\ conversion = <<>>
    /\ hierarchy = <<>>
    /\ descriptor = <<>>
    /\ paging = <<>>
    /\ relate = <<>>
    /\ dataPolicies = <<>>
    /\ keying = <<>>
    /\ resync = <<>>
    /\ recordCache = <<>>
    /\ \E col \in GivenColumns :
          expansion = [given |-> col, col |-> col, once |-> col,
                       calls |-> 0, threw |-> FALSE]
    /\ payloads = <<>>

\* expandColumn(col) on the column object as the calls before left it
ExpandCall ==
    /\ expansion.calls < 2
    /\ ~expansion.threw
    /\ LET r == ExpandColumnInPlace(expansion.col)
       IN expansion' = [expansion EXCEPT
                           !.col = r.col,
                           !.once = IF expansion.calls = 0 THEN r.col ELSE @,
                           !.calls = @ + 1,
                           !.threw = r.threw]

NextExpand == ExpandCall /\ UNCHANGED notExpandVars

SpecExpand == InitExpand /\ [][NextExpand]_vars

(***************************************************************************)
(* Properties of expandColumn                                              *)
(***************************************************************************)

\* C38: a second expandColumn on a column the first one accepted succeeds
\* and leaves every attribute as the first call left it.
C38_SecondExpandIsNoOp ==
    expansion.calls = 2 =>
        /\ ~expansion.threw
        /\ expansion.col = expansion.once

\* C38: the second call succeeds and changes nothing for every column the
\* first call accepted whose type is not reference_list.
C38_NoOpUnlessReferenceList ==
    (expansion.calls = 2 /\ ToLowerCase(expansion.given.type) # "reference_list") =>
        /\ ~expansion.threw
        /\ expansion.col = expansion.once

\* a reference_list column with a reference_table: accepted once, refused
\* the second time
C38_ReferenceListRefusedTheSecondTime ==
    /\ expansion.calls = 2
    /\ expansion.threw
    /\ expansion.given.type = "reference_list"
    /\ expansion.given.reference_table # ""
    /\ expansion.once.type = "glide_list"

\* a short-hand column of another type changed by the first call and left
\* alone by the second
C38_ShortHandExpandedOnce ==
    /\ expansion.calls = 2
    /\ ~expansion.threw
    /\ expansion.given.type \in {"date", "text", "bigint", "TEXT"}
    /\ expansion.given.choice.t = "string"
    /\ expansion.given.max_length = 0
    /\ expansion.col = expansion.once
    /\ expansion.once # expansion.given

(***************************************************************************)
(* Part 13.  CDelta.merge with typed values: the bodies of its requests    *)
(*                                                                         *)
(* The rows are JavaScript objects (column -> value), the primaryKey is    *)
(* the string "u_name", the deletedFlag is "u_in_datamart".  The request   *)
(* bodies are kept as merge hands them to create and update (data: row).   *)
(***************************************************************************)
MaxPayloadIncoming == 2
MaxPayloadExisting == 2

\* what schema.get returns for the table
PayloadSchema(hasFlag, hasFirst, hasClass) ==
    ("sys_id" :> Column("GUID", 32, FALSE))
    @@ ("u_name" :> Column("string", 40, FALSE))
    @@ (IF hasFlag THEN "u_in_datamart" :> Column("boolean", 0, FALSE) ELSE EmptyRow)
    @@ (IF hasFirst THEN "first_discovered" :> Column("glide_date_time", 0, FALSE)
        ELSE EmptyRow)
    @@ (IF hasClass THEN "sys_class_name" :> Column("string", 80, FALSE) ELSE EmptyRow)

\* the rows of the caller: with or without a name and a first_discovered
IncomingKinds(hasFirst) ==
    {n @@ f : n \in {EmptyRow} \cup {"u_name" :> Str(s) : s \in {"a", "b"}},
              f \in {EmptyRow} \cup
                    (IF hasFirst THEN {"first_discovered" :> DateOf(UtcDate)} ELSE {})}

\* the rows getRecords returns: every column of the table, as JS values
ExistingKinds(hasFlag, hasFirst, hasClass) ==
    {("u_name" :> Str(s))
     @@ (IF hasFlag THEN "u_in_datamart" :> Bool(b) ELSE EmptyRow)
     @@ (IF hasFirst THEN "first_discovered" :> DateOf(UtcDate) ELSE EmptyRow)
     @@ (IF hasClass THEN "sys_class_name" :> Str("u_foo") ELSE EmptyRow) :
        s \in {"a", "b"}, b \in IF hasFlag THEN BOOLEAN ELSE {FALSE}}

\* the remote gives each record its own sys_id
WithSysIds(rows) ==
    [i \in DOMAIN rows |-> ("sys_id" :> Str(IF i = 1 THEN Guid ELSE ShortGuid)) @@ rows[i]]

\* row[k], undefined when the row has no k
ValueOr(row, k) == IF k \in DOMAIN row THEN row[k] ELSE Undefined

\* !v
IsFalsy(val) ==
    \/ val.t \in {"undefined", "null"}
    \/ val.t = "string" /\ val.v = ""
    \/ val.t = "boolean" /\ val.v = "false"
    \/ val.t = "number" /\ val.v \in {"0", "NaN"}

\* primaryKey(snRow) for the primaryKey "u_name"; "" for a falsy key
CidOf(snRow) ==
    IF IsFalsy(ValueOr(snRow, "u_name")) THEN "" ELSE snRow["u_name"].v

EmptyTypedIndex ==
    [thrown |-> FALSE, index |-> EmptyRow, processed |-> <<>>, duplicates |-> <<>>]

\* convertSN(tableName, row) of every row of a list
ConvertEach(schema, rows) == [i \in DOMAIN rows |-> ConvertSNRow(schema, rows[i])]

\* "validate and index all rows" of one list, converted[i] being what
\* convertSN gives for rows[i]: index maps a key to the wire row first found
\* with it, duplicates holds the raw rows dropped
RECURSIVE IndexTyped(_, _, _, _)
IndexTyped(rows, converted, i, acc) ==
    IF acc.thrown \/ i > Len(rows) THEN acc
    ELSE LET conv == converted[i]
             cid  == CidOf(conv.row)
         IN IF ~conv.ok THEN [acc EXCEPT !.thrown = TRUE]
            ELSE IF cid # "" /\ cid \in DOMAIN acc.index
            THEN IndexTyped(rows, converted, i + 1,
                            [acc EXCEPT !.duplicates = Append(@, rows[i])])
            ELSE IndexTyped(rows, converted, i + 1,
                            [acc EXCEPT !.index = IF cid # "" THEN (cid :> conv.row) @@ @
                                                  ELSE @,
                                        !.processed = Append(@, conv.row)])

\* the value compared: undefined counts as the empty string
OrEmpty(val) == IF val.t = "undefined" THEN Str("") ELSE val

\* the update payload before sys_id and sys_class_name are set
TypedChanges(schema, incomingRow, existingRow) ==
    LET ks == {k \in DOMAIN incomingRow \cap DOMAIN schema :
                 OrEmpty(incomingRow[k]) # OrEmpty(ValueOr(existingRow, k))}
    IN [k \in ks |-> OrEmpty(incomingRow[k])]

\* new Date(): the time of the call
NewDate == DateOf(UtcDate)

\* the row pushed to pending.create
CreateRow(schema, incomingRow) ==
    IF "first_discovered" \in DOMAIN schema /\ "first_discovered" \notin DOMAIN incomingRow
    THEN ("first_discovered" :> NewDate) @@ incomingRow
    ELSE incomingRow

EmptyTypedPlan ==
    [thrown |-> FALSE, create |-> <<>>, update |-> <<>>, delete |-> <<>>,
     rowsMatched |-> 0]

\* "pending creates/updates"
RECURSIVE PlanTypedIncoming(_, _, _, _, _)
PlanTypedIncoming(processed, existing, schema, i, plan) ==
    IF plan.thrown \/ i > Len(processed) THEN plan
    ELSE LET incomingRow == IF "u_in_datamart" \in DOMAIN schema
                            THEN ("u_in_datamart" :> Str("1")) @@ processed[i]
                            ELSE processed[i]
             cid == CidOf(incomingRow)
         IN IF cid \notin DOMAIN existing
            THEN PlanTypedIncoming(processed, existing, schema, i + 1,
                    [plan EXCEPT !.create = Append(@, CreateRow(schema, incomingRow))])
            ELSE LET existingRow == existing[cid]
                     payload     == TypedChanges(schema, incomingRow, existingRow)
                 IN IF IsFalsy(ValueOr(existingRow, "sys_id"))
                    THEN [plan EXCEPT !.thrown = TRUE]
                    ELSE IF DOMAIN payload # {}
                    THEN PlanTypedIncoming(processed, existing, schema, i + 1,
                            [plan EXCEPT !.update = Append(@,
                                ("sys_id" :> existingRow["sys_id"])
                                @@ ("sys_class_name" :> ValueOr(existingRow, "sys_class_name"))
                                @@ payload)])
                    ELSE PlanTypedIncoming(processed, existing, schema, i + 1,
                            [plan EXCEPT !.rowsMatched = @ + 1])

\* the sys_ids of "pending deletes": the existing rows without an incoming
\* row, then the existing duplicates
RECURSIVE MissingSysIds(_, _, _, _, _)
MissingSysIds(processed, incoming, allowDeletes, hasFlag, i) ==
    IF i > Len(processed) THEN <<>>
    ELSE LET existingRow == processed[i]
             cid  == CidOf(existingRow)
             skip == \/ cid = ""
                     \/ cid \in DOMAIN incoming
                     \/ /\ ~allowDeletes
                        /\ hasFlag
                        /\ ValueOr(existingRow, "u_in_datamart") = Str("0")
         IN (IF skip THEN <<>> ELSE <<ValueOr(existingRow, "sys_id")>>)
            \o MissingSysIds(processed, incoming, allowDeletes, hasFlag, i + 1)

\* the delete payload of a sys_id
TypedDeletePayload(sysId, hasFlag) ==
    ("sys_id" :> sysId) @@ (IF hasFlag THEN "u_in_datamart" :> Str("0") ELSE EmptyRow)

\* the plan of a call whose rows are indexed: pending.create,
\* pending.update and pending.delete
TypedPlanOf(p) ==
    LET schema == PayloadSchema(p.hasFlag, p.hasFirst, p.hasClass)
        inc    == p.index.incoming
        ex     == p.index.existing
    IN IF inc.thrown \/ ex.thrown THEN [EmptyTypedPlan EXCEPT !.thrown = TRUE]
       ELSE LET plan   == PlanTypedIncoming(inc.processed, ex.index, schema, 1,
                                            EmptyTypedPlan)
                sysIds == IF p.allowDeletes \/ p.hasFlag
                          THEN MissingSysIds(ex.processed, inc.index, p.allowDeletes,
                                             p.hasFlag, 1)
                               \o [j \in DOMAIN ex.duplicates |->
                                     ValueOr(ex.duplicates[j], "sys_id")]
                          ELSE <<>>
            IN IF plan.thrown THEN plan
               ELSE [plan EXCEPT !.delete =
                        [j \in DOMAIN sysIds |-> TypedDeletePayload(sysIds[j], p.hasFlag)]]

\* merge(run) is called; getRecords has returned the existing rows
InitPayload ==
    /\ readOnly = FALSE
    /\ calls = <<>>
    /\ readBucket = 0
    /\ writeBucket = 0
    /\ cache = <<>>
    /\ resolved = {}
    /\ getters = <<>>
    /\ now = 0
    /\ fetches = <<>>
    /\ run = <<>>
    /\ mpc = "none"
    /\ pending = <<>>
    /\ remote = <<>>
    /\ policy = <<>>
    /\ exec = <<>>
    /\ sent = {}
    /\ result = <<>>
    /\ desired = <<>>
    /\ rtable = <<>>
    /\ tpc = "none"
    /\ tplan = <<>>
    /\ twrites = <<>>
    /\ commits = [started |-> <<>>, running |-> 0]
    /\ conversion = <<>>
    /\ hierarchy = <<>>
    /\ descriptor = <<>>
    /\ paging = <<>>
    /\ relate = <<>>
    /\ dataPolicies = <<>>
    /\ keying = <<>>
    /\ resync = <<>>
    /\ recordCache = <<>>
    /\ expansion = <<>>
    /\ \E hasFlag, hasFirst, hasClass, allowDeletes \in BOOLEAN :
         \E incoming \in SeqsUpTo(IncomingKinds(hasFirst), MaxPayloadIncoming),
            existing \in SeqsUpTo(ExistingKinds(hasFlag, hasFirst, hasClass),
                                  MaxPayloadExisting) :
            payloads = [pc |-> "called", hasFlag |-> hasFlag, hasFirst |-> hasFirst,
                        hasClass |-> hasClass, allowDeletes |-> allowDeletes,
                        incoming |-> incoming, existing |-> WithSysIds(existing),
                        index |-> [incoming |-> EmptyTypedIndex,
                                   existing |-> EmptyTypedIndex],
                        plan |-> EmptyTypedPlan, requests |-> <<>>,
                        toggles |-> <<>>]

\* "validate and index all rows": the incoming rows, then the existing ones
IndexPayloads ==
    /\ payloads.pc = "called"
    /\ LET schema    == PayloadSchema(payloads.hasFlag, payloads.hasFirst,
                                      payloads.hasClass)
           converted == ConvertEach(schema, payloads.incoming \o payloads.existing)
           n         == Len(payloads.incoming)
           inc == IndexTyped(payloads.incoming, SubSeq(converted, 1, n), 1,
                             EmptyTypedIndex)
           ex  == IF inc.thrown THEN EmptyTypedIndex
                  ELSE IndexTyped(payloads.existing,
                                  SubSeq(converted, n + 1, Len(converted)), 1,
                                  EmptyTypedIndex)
       IN payloads' = [payloads EXCEPT
                          !.pc = IF inc.thrown \/ ex.thrown THEN "thrown" ELSE "indexed",
                          !.index = [incoming |-> inc, existing |-> ex]]

\* merge from `await this.client.schema.get` to policy.toggle(tableName,
\* false)
PlanPayloads ==
    /\ payloads.pc = "indexed"
    /\ LET plan == TypedPlanOf(payloads)
           none == Len(plan.create) + Len(plan.update) + Len(plan.delete) = 0
       IN payloads' = [payloads EXCEPT
                          !.pc = IF plan.thrown THEN "thrown"
                                 ELSE IF none THEN "done" ELSE "sending",
                          !.plan = plan,
                          !.toggles = IF plan.thrown \/ none THEN @ ELSE <<FALSE>>]

\* the call of the client for the n-th entry of the plan: creates, then
\* updates, then deletes
CallAt(p, n) ==
    LET c == Len(p.plan.create)
        u == Len(p.plan.update)
    IN IF n <= c THEN [method |-> "POST", data |-> p.plan.create[n]]
       ELSE IF n <= c + u THEN [method |-> "PUT", data |-> p.plan.update[n - c]]
       ELSE IF p.allowDeletes
       THEN [method |-> "DELETE", data |-> [sys_id |-> p.plan.delete[n - c - u]["sys_id"]]]
       ELSE [method |-> "PUT", data |-> p.plan.delete[n - c - u]]

\* client.create refuses a row with a sys_id, update and delete one without
ClientRefuses(call) ==
    IF call.method = "POST" THEN ~IsFalsy(ValueOr(call.data, "sys_id"))
    ELSE IsFalsy(ValueOr(call.data, "sys_id"))

\* the next create, update or delete of the plan; the remote answers it or
\* fails it.  After the last one, or the first that throws, the data policy
\* is toggled back
SendPayload(ok) ==
    /\ payloads.pc = "sending"
    /\ LET n      == Len(payloads.requests) + 1
           total  == Len(payloads.plan.create) + Len(payloads.plan.update)
                     + Len(payloads.plan.delete)
           call   == CallAt(payloads, n)
           throws == ClientRefuses(call) \/ ~ok
       IN payloads' = [payloads EXCEPT
                          !.requests = IF ClientRefuses(call) THEN @ ELSE Append(@, call),
                          !.pc = IF throws THEN "thrown"
                                 ELSE IF n = total THEN "done" ELSE @,
                          !.toggles = IF throws \/ n = total THEN Append(@, TRUE) ELSE @]

NextPayload ==
    \/ IndexPayloads /\ UNCHANGED notPayloadVars
    \/ PlanPayloads /\ UNCHANGED notPayloadVars
    \/ \E ok \in BOOLEAN : SendPayload(ok) /\ UNCHANGED notPayloadVars

SpecPayload == InitPayload /\ [][NextPayload]_vars

(***************************************************************************)
(* Properties of the request bodies of merge                               *)
(***************************************************************************)

\* the requests that carry a body
Bodies ==
    {payloads.requests[i].data : i \in
        {j \in DOMAIN payloads.requests : payloads.requests[j].method # "DELETE"}}

\* typeof v === "string", or a property that holds undefined, which
\* JSON.stringify leaves out of the body
StringOrLeftOut(val) == val.t \in {"string", "undefined"}

\* C39: every field value of every create, update and soft-delete payload
\* that merge sends is a string.
C39_EveryPayloadValueIsString ==
    \A data \in Bodies : \A k \in DOMAIN data : StringOrLeftOut(data[k])

\* C39: every value but the first_discovered that merge itself adds to a
\* create payload is a string.
C39_StringsButFirstDiscovered ==
    \A data \in Bodies : \A k \in DOMAIN data :
        \/ StringOrLeftOut(data[k])
        \/ /\ k = "first_discovered"
           /\ data[k] = NewDate
           /\ payloads.hasFirst
           /\ "sys_id" \notin DOMAIN data

\* a create whose first_discovered is a Date object was sent, next to an
\* update and a soft delete that hold strings only
C39_DateInCreatePayload ==
    /\ payloads.pc = "done"
    /\ \E i \in DOMAIN payloads.requests :
          /\ payloads.requests[i].method = "POST"
          /\ payloads.requests[i].data["first_discovered"].t = "date"
    /\ \E i \in DOMAIN payloads.requests :
          /\ payloads.requests[i].method = "PUT"
          /\ \A k \in DOMAIN payloads.requests[i].data :
                payloads.requests[i].data[k].t = "string"


(***************************************************************************)
(* Column planning with the key of the desired column chosen by the caller *)
(***************************************************************************)
\* the key under which the caller lists the desired column
DesiredKeys == {"a", "u_b"}

\* the desired column: named by its key or by itself
KeyedColumnSet ==
    {[id |-> Undef, name |-> n, type |-> tp, reference_table |-> Undef,
      label |-> "A", max_length |-> 0, choice |-> NoChoice, choice_map |-> Undef,
      data_policy |-> dp] :
        n \in {Undef, "u_a", "u_c"}, tp \in {"string", "integer"},
        dp \in {Undef, "readonly"}}

\* sync is called with one desired column under a key of the caller
InitColumnKeys ==
    /\ readOnly = FALSE
    /\ calls = <<>>
    /\ readBucket = 0
    /\ writeBucket = 0
    /\ cache = <<>>
    /\ resolved = <<>>
    /\ getters = <<>>
    /\ now = 0
    /\ fetches = 0
    /\ run = <<>>
    /\ mpc = "none"
    /\ pending = <<>>
    /\ remote = <<>>
    /\ policy = <<>>
    /\ exec = <<>>
    /\ sent = {}
    /\ result = <<>>
    /\ desired \in {[name |-> TableName, order |-> <<key>>,
                     columns |-> [id \in {key} |-> c]] :
                      key \in DesiredKeys, c \in KeyedColumnSet}
    /\ rtable \in {[exists |-> TRUE, parent |-> ParentName, columns |-> cs] :
                      cs \in RemoteColumnsSet}
    /\ tpc = "start"
    /\ tplan = <<>>
    /\ twrites = <<>>
    /\ commits = [started |-> <<>>, running |-> 0]
    /\ conversion = <<>>
    /\ hierarchy = <<>>
    /\ descriptor = <<>>
    /\ paging = <<>>
    /\ relate = <<>>
    /\ dataPolicies = <<>>
    /\ keying = <<>>
    /\ resync = <<>>
    /\ recordCache = <<>>
    /\ expansion = <<>>
    /\ payloads = <<>>

SpecColumnKeys == InitColumnKeys /\ [][NextColumns]_vars

(***************************************************************************)
(* Properties of the plan of column planning                               *)
(***************************************************************************)

\* the actions of the first loop: one for each desired column that is
\* missing or needs a change
PlannedActions ==
    {PlanColumn(desired.name, ExistingColumns, NewColumns[id]) :
        id \in DOMAIN NewColumns} \ {NoAction}

\* the actions of the second loop
DeleteActions ==
    {DeleteAction(n) : n \in DeletableColumns(desired.name, ExistingColumns, NewColumns)}

ActionsOf(plan) == {plan[key] : key \in DOMAIN plan}

\* C40: the plan returned holds the action of every desired column that is
\* missing or needs a change and the delete of every deletable existing
\* column; none is replaced by another stored under the same key.
C40_PlanHoldsEveryAction ==
    tpc = "planned" => ActionsOf(tplan) = PlannedActions \cup DeleteActions

\* C40: the plan holds every action when no desired column is listed under
\* the name of a deletable existing column.
C40_EveryActionUnlessKeyIsDeletableName ==
    (tpc = "planned"
        /\ DOMAIN NewColumns
              \cap DeletableColumns(desired.name, ExistingColumns, NewColumns) = {})
      => ActionsOf(tplan) = PlannedActions \cup DeleteActions

\* the create of the desired column u_a was replaced by the delete of the
\* existing column named like its key
C40_CreateReplacedByDelete ==
    /\ tpc = "planned"
    /\ \E id \in DOMAIN NewColumns :
          /\ PlanColumn(desired.name, ExistingColumns, NewColumns[id]).type = "create"
          /\ desired.columns[id].name = "u_a"
          /\ tplan[id] = DeleteAction(id)
          /\ \A key \in DOMAIN tplan : tplan[key].type # "create"

\* a create and a delete side by side under different keys
C40_CreateAndDeleteKept ==
    /\ tpc = "planned"
    /\ \E k1, k2 \in DOMAIN tplan :
          tplan[k1].type = "create" /\ tplan[k2].type = "delete"

=============================================================================
